---- MODULE Spec2Model ----
(***************************************************************************)
(* Spotlight backend: the job/event pipeline (services/job_manager.py,     *)
(* routes/recommend.py), concept management and outcome learning           *)
(* (routes/concepts.py, services/concept_learner.py), the scoring engine   *)
(* (agents/scorer.py) and candidate deduplication                          *)
(* (services/address_generator.py).                                        *)
(*                                                                         *)
(* Numbers: weights and fractions are kept in hundredths (0.21 is 21),     *)
(* scores in tenths of a point where a finer grain is needed; the unit is  *)
(* named at each definition.                                               *)
(***************************************************************************)
EXTENDS Integers, Sequences, FiniteSets, TLC

VARIABLES
    \* ---- JobManager (services/job_manager.py) ----
    jobs,        \* self.jobs: job_id -> job record (a dict: its domain is the ids present)
    job_queues,  \* self.job_queues: the job ids that have a queue registered
    queue,       \* the asyncio.Queue objects, by the job id they were created for
    issued,      \* number of uuid4 job ids handed out so far
    now,         \* datetime.utcnow(), in seconds since the process started
    \* ---- run_recommendation_job tasks (routes/recommend.py) ----
    task,        \* job_id -> position of its background task
    city,        \* job_id -> the city argument of its background task
    \* ---- stream_job_events consumers ----
    cstate,      \* consumer -> "idle" | "404" | "connected" | "streaming" |
                 \*   "noqueue" (returned at once) | "ended" (stopped at the sentinel)
    cjob,        \* consumer -> job id it asked for
    received,    \* consumer -> sequence of what the generator yielded
    \* ---- history (not program state) ----
    log,         \* job_id -> every item ever put on its queue, in order
    called,      \* the job ids complete_job or fail_job has been called with
    born,        \* job_id -> the expires_at it was created with (-1: not created)
    \* ---- the database (models/database.py) ----
    concepts,     \* concepts table: concept id -> row
    training,     \* concept_training_outcomes table: rows in insertion order
    outcome_rows, \* outcomes table: the prediction ids that have an Outcome row
    writer,       \* the session inside a write transaction, 0 when there is none
    \* ---- requests ----
    spc,          \* session -> position of its POST /api/outcomes request
    sess,         \* session -> what the request holds: arguments, flushed row, loaded concept
    http_status,  \* HTTP status of the last response (0: none yet)
    requests,     \* number of routes/concepts.py requests handled so far
    \* ---- ScoringEngine.calculate_score (agents/scorer.py) ----
    scorer_pc,    \* "idle" | "called" | "returned" | "raised"
    scoring,      \* the call's arguments: features and the concept configuration found
    score_result, \* the dict calculate_score returned, or what it raised
    \* ---- AddressGenerator.generate_candidates (services/address_generator.py) ----
    generator_pc,   \* "idle" | "scored" (all_candidates collected) | "returned"
    all_candidates, \* the scored candidates of all areas, in the order collected
    top_limit,      \* the limit argument
    deduped,        \* what _deduplicate_by_distance returned
    top_n,          \* what generate_candidates returned
    \* ---- ConceptLearner._retrain_concept, step 3 (services/concept_learner.py) ----
    variance_calls, \* the passes made so far: MAPE, number of outcomes, new revenue_variance
    \* ---- AddressGenerator._score_candidate (services/address_generator.py) ----
    candidate_pc,   \* "idle" | "gathered" (the three helpers are back) | "returned"
    gathered,       \* what asyncio.gather returned, and the include_crime argument
    score_data,     \* the dict _score_candidate returned
    \* ---- TrustMetrics (services/trust_metrics.py) as main.py calls it ----
    trust_pc,       \* "idle" | "scored" (calculate_score is back) | "returned"
    trust_call,     \* the features of the location and the score_components of its score
    trust_result    \* the coverage and the confidence computed

jobVars == <<jobs, job_queues, queue, issued, now, task, city, cstate, cjob, received, log, called, born>>

conceptVars == <<concepts, training, outcome_rows, writer, spc, sess, http_status, requests>>

scoreVars == <<scorer_pc, scoring, score_result>>

generatorVars == <<generator_pc, all_candidates, top_limit, deduped, top_n>>

varianceVars == <<variance_calls>>

candidateVars == <<candidate_pc, gathered, score_data>>

trustVars == <<trust_pc, trust_call, trust_result>>

vars == <<jobVars, conceptVars, scoreVars, generatorVars, varianceVars, candidateVars, trustVars>>

\* what the job pipeline, the concept routes, the scoring engine and the
\* address generator each leave alone
notJob == <<conceptVars, scoreVars, generatorVars, varianceVars, candidateVars, trustVars>>
notConcept == <<jobVars, scoreVars, generatorVars, varianceVars, candidateVars, trustVars>>
notScore == <<jobVars, conceptVars, generatorVars, varianceVars, candidateVars, trustVars>>
notGenerator == <<jobVars, conceptVars, scoreVars, varianceVars, candidateVars, trustVars>>
notVariance == <<jobVars, conceptVars, scoreVars, generatorVars, candidateVars, trustVars>>
notCandidate == <<jobVars, conceptVars, scoreVars, generatorVars, varianceVars, trustVars>>
notTrust == <<jobVars, conceptVars, scoreVars, generatorVars, varianceVars, candidateVars>>

----------------------------------------------------------------------------
(***************************************************************************)
(* Bounds                                                                  *)
(***************************************************************************)
MaxJobs == 1          \* job ids that create_job may hand out
MaxTime == 3          \* clock ticks (of half a time to live each) before the clock stops
MaxConsumers == 2     \* SSE connections
MaxKeepalive == 1     \* keepalives one consumer may be sent
MaxQueue == 3         \* items direct API callers may have put on one queue
MaxPredictions == 4   \* rows of the predictions table
MaxRequests == 2      \* requests to the routes of routes/concepts.py
MaxSessions == 2      \* concurrent POST /api/outcomes requests

JobIds == 1..MaxJobs
\* the ids create_job can hand out when called directly: one job more
RegistryIds == 1..(MaxJobs + 1)
\* a job id that create_job never returned (never created)
UnknownJob == 0
ConsumerIds == 1..MaxConsumers

\* JobManager(ttl_seconds=3600)
ttl_seconds == 3600

----------------------------------------------------------------------------
(***************************************************************************)
(* services/job_manager.py                                                 *)
(***************************************************************************)
PENDING == "pending"
RUNNING == "running"
COMPLETE == "complete"
FAILED == "failed"
DEGRADED == "degraded"
JobStatus == {PENDING, RUNNING, COMPLETE, FAILED, DEGRADED}
Terminal == {COMPLETE, FAILED, DEGRADED}

StageStatus == {"idle", "running", "done", "warn", "fail"}
Stages == <<"GEO", "DEMO", "COMP", "TRANSIT", "TRAFFIC", "RENTS", "REVENUE">>

\* Python's None, among strings
None == "None"

\* The end-of-stream marker complete_job and fail_job put after their event:
\* queue.put(None)
Sentinel == [stage |-> None, status |-> None, payload |-> None]
Keepalive == [stage |-> "keepalive", status |-> None, payload |-> None]

StageEvent(stage, status) == [stage |-> stage, status |-> status, payload |-> None]
CompletionEvent(result) == [stage |-> "COMPLETE", status |-> "done", payload |-> result]
FailureEvent(error) == [stage |-> "ERROR", status |-> "fail", payload |-> error]

IsTerminalEvent(e) == e.stage \in {"COMPLETE", "ERROR"}

\* The JobManager's mutable state as one value, so that a handler that makes
\* several calls is one step.  log and called are history.
JM == [jobs |-> jobs, job_queues |-> job_queues, queue |-> queue,
       log |-> log, called |-> called]

\* dict assignment d[k] = v
DictSet(d, k, v) == [x \in (DOMAIN d) \cup {k} |-> IF x = k THEN v ELSE d[x]]
\* del d[k] for every k in ks
DictDel(d, ks) == [x \in (DOMAIN d) \ ks |-> d[x]]

\* await self.job_queues[job_id].put(item), guarded by `if job_id in self.job_queues`
Put(jm, job_id, item) ==
    IF job_id \in jm.job_queues
    THEN [jm EXCEPT !.queue[job_id] = Append(@, item),
                    !.log[job_id] = Append(@, item)]
    ELSE jm

NewJob(t) ==
    [status |-> PENDING,
     expires_at |-> t + ttl_seconds,
     stages |-> <<>>,
     degraded |-> FALSE,
     result |-> None,
     error |-> None]

\* create_job: a fresh uuid4, the job record and its queue
create_job(jm, job_id, t) ==
    [jm EXCEPT !.jobs = DictSet(@, job_id, NewJob(t)),
               !.job_queues = @ \cup {job_id},
               !.queue[job_id] = <<>>]

\* emit_stage_update that makes a record for an id it does not find
emit_stage_update_any_job(jm, job_id, stage, status) ==
    LET job == IF job_id \in DOMAIN jm.jobs THEN jm.jobs[job_id] ELSE NewJob(0) IN
    Put([jm EXCEPT !.jobs = DictSet(@, job_id, [job EXCEPT !.stages = DictSet(@, stage, status)])],
        job_id, StageEvent(stage, status))

emit_stage_update(jm, job_id, stage, status) ==
    IF job_id \notin DOMAIN jm.jobs
    THEN jm
    ELSE Put([jm EXCEPT !.jobs[job_id].stages = DictSet(@, stage, status)],
             job_id, StageEvent(stage, status))

\* complete_job with the end-of-stream marker put before the completion event
complete_job_marker_first(jm, job_id, result, degraded) ==
    LET c == [jm EXCEPT !.called = @ \cup {job_id}] IN
    IF job_id \notin DOMAIN jm.jobs
    THEN c
    ELSE Put(Put([c EXCEPT !.jobs[job_id].status = IF degraded THEN DEGRADED ELSE COMPLETE,
                           !.jobs[job_id].result = result,
                           !.jobs[job_id].degraded = degraded],
                 job_id, Sentinel),
             job_id, CompletionEvent(result))

\* degraded: whether a non-empty list of warnings was passed
complete_job(jm, job_id, result, degraded) ==
    LET c == [jm EXCEPT !.called = @ \cup {job_id}] IN
    IF job_id \notin DOMAIN jm.jobs
    THEN c
    ELSE Put(Put([c EXCEPT !.jobs[job_id].status = IF degraded THEN DEGRADED ELSE COMPLETE,
                           !.jobs[job_id].result = result,
                           !.jobs[job_id].degraded = degraded],
                 job_id, CompletionEvent(result)),
             job_id, Sentinel)

\* fail_job that puts the failure event and no end-of-stream marker
fail_job_without_marker(jm, job_id, error) ==
    LET c == [jm EXCEPT !.called = @ \cup {job_id}] IN
    IF job_id \notin DOMAIN jm.jobs
    THEN c
    ELSE Put([c EXCEPT !.jobs[job_id].status = FAILED,
                       !.jobs[job_id].error = error],
             job_id, FailureEvent(error))

fail_job(jm, job_id, error) ==
    LET c == [jm EXCEPT !.called = @ \cup {job_id}] IN
    IF job_id \notin DOMAIN jm.jobs
    THEN c
    ELSE Put(Put([c EXCEPT !.jobs[job_id].status = FAILED,
                           !.jobs[job_id].error = error],
                 job_id, FailureEvent(error)),
             job_id, Sentinel)

\* What get_job returns for an id that is not in self.jobs (Python's None, as a record)
NoJob == [status |-> None]

\* get_job: self.jobs.get(job_id)
get_job(jm, job_id) == IF job_id \in DOMAIN jm.jobs THEN jm.jobs[job_id] ELSE NoJob

\* the jobs whose expires_at is t or earlier
expired_or_due_jobs(jm, t) == {j \in DOMAIN jm.jobs : jm.jobs[j].expires_at <= t}

expired_jobs(jm, t) == {j \in DOMAIN jm.jobs : jm.jobs[j].expires_at < t}

cleanup_expired_jobs(jm, t) ==
    [jm EXCEPT !.jobs = DictDel(@, expired_jobs(jm, t)),
               !.job_queues = @ \ expired_jobs(jm, t)]

\* Write a JobManager value back to the variables
Store(jm) ==
    /\ jobs' = jm.jobs
    /\ job_queues' = jm.job_queues
    /\ queue' = jm.queue
    /\ log' = jm.log
    /\ called' = jm.called

----------------------------------------------------------------------------
(***************************************************************************)
(* routes/recommend.py                                                     *)
(***************************************************************************)
\* The RecommendResponse a successful run stores: what matters here is that
\* it is a value other than None
Results == {"top"}
\* The RecommendResponse whose list of addresses is empty
EmptyTop == "no addresses"
\* _get_top_areas knows the areas of helsinki, espoo and vantaa only
Cities == {"helsinki", "turku"}
Supported(c) == c \in {"helsinki", "espoo", "vantaa"}
\* str(e) of the exception the pipeline caught
Errors == {"boom"}

\* POST /api/recommend: create_job, then ensure_future(run_recommendation_job)
recommend_addresses ==
    /\ issued < MaxJobs
    /\ issued' = issued + 1
    /\ Store(create_job(JM, issued + 1, now))
    /\ task' = [task EXCEPT ![issued + 1] = "scheduled"]
    /\ \E c \in Cities : city' = [city EXCEPT ![issued + 1] = c]
    /\ born' = [born EXCEPT ![issued + 1] = now + ttl_seconds]
    /\ UNCHANGED <<now, cstate, cjob, received>>
    /\ UNCHANGED notJob

\* run_recommendation_job up to its first suspension (awaiting
\* generate_candidates): the status write and the initial GEO event
SetRunning(jm, job_id) ==
    IF get_job(jm, job_id) # NoJob
    THEN [jm EXCEPT !.jobs[job_id].status = RUNNING]
    ELSE jm

RunStart(job_id) ==
    /\ task[job_id] = "scheduled"
    /\ Supported(city[job_id])
    /\ Store(emit_stage_update(SetRunning(JM, job_id), job_id, "GEO", "running"))
    /\ task' = [task EXCEPT ![job_id] = "generating"]
    /\ UNCHANGED <<issued, now, cstate, cjob, received, born, city>>
    /\ UNCHANGED notJob

\* The seven emit_stage_update(..., DONE) calls that follow generate_candidates
RECURSIVE EmitDone(_, _, _)
EmitDone(jm, job_id, n) ==
    IF n = 0 THEN jm
    ELSE emit_stage_update(EmitDone(jm, job_id, n - 1), job_id, Stages[n], "done")

\* run_recommendation_job from the return of generate_candidates to its end.
\* Nothing in this stretch suspends (put on an unbounded queue returns at once).
\*   "ok":          the emits, the response, complete_job
\*   "gen_raised":  generate_candidates raised: fail_job
\*   "build_raised": building the response raised after the emits: fail_job
\* The coroutine ends "finished", or "caught" when its except branch ran.
Outcomes == {"ok", "gen_raised", "build_raised"}

RunBody(jm, job_id, outcome, result, error) ==
    CASE outcome = "ok" ->
            complete_job(EmitDone(jm, job_id, Len(Stages)), job_id, result, FALSE)
      [] outcome = "gen_raised" ->
            fail_job(jm, job_id, error)
      [] outcome = "build_raised" ->
            fail_job(EmitDone(jm, job_id, Len(Stages)), job_id, error)

\* generate_candidates raising when no area is found
no_areas_raises == "gen_raised"

\* generate_candidates when _get_top_areas found no area: return []
no_areas_returns == "ok"

\* run_recommendation_job for a city without areas: generate_candidates
\* returns without suspending, so the run goes from its start to its end
\* in one piece
RunNoAreas(job_id) ==
    /\ task[job_id] = "scheduled"
    /\ ~Supported(city[job_id])
    /\ Store(RunBody(emit_stage_update(SetRunning(JM, job_id), job_id, "GEO", "running"),
                     job_id, no_areas_returns, EmptyTop, None))
    /\ task' = [task EXCEPT ![job_id] = IF no_areas_returns = "ok" THEN "finished" ELSE "caught"]
    /\ UNCHANGED <<issued, now, cstate, cjob, received, born, city>>
    /\ UNCHANGED notJob

RunFinish(job_id) ==
    /\ task[job_id] = "generating"
    /\ \E outcome \in Outcomes, result \in Results, error \in Errors :
           /\ Store(RunBody(JM, job_id, outcome, result, error))
           /\ task' = [task EXCEPT ![job_id] = IF outcome = "ok" THEN "finished" ELSE "caught"]
    /\ UNCHANGED <<issued, now, cstate, cjob, received, born, city>>
    /\ UNCHANGED notJob

\* GET /api/stream/{job_id}: 404 unless get_job finds the job; otherwise the
\* response starts and the generator is created (its body has not run yet)
StreamConnect(c, job_id) ==
    /\ cstate[c] = "idle"
    /\ cstate' = [cstate EXCEPT ![c] = IF get_job(JM, job_id) = NoJob THEN "404" ELSE "connected"]
    /\ cjob' = [cjob EXCEPT ![c] = job_id]
    /\ UNCHANGED <<jobs, job_queues, queue, issued, now, task, received, log, called, born, city>>
    /\ UNCHANGED notJob

\* stream_job_events, first iteration: return at once when the id has no queue,
\* otherwise hold on to the queue object
StreamStart(c) ==
    /\ cstate[c] = "connected"
    /\ cstate' = [cstate EXCEPT ![c] = IF cjob[c] \in job_queues THEN "streaming" ELSE "noqueue"]
    /\ UNCHANGED <<jobs, job_queues, queue, issued, now, task, cjob, received, log, called, born, city>>
    /\ UNCHANGED notJob

\* stream_job_events: queue.get() returned an item; None ends the stream,
\* anything else is yielded
StreamGet(c) ==
    /\ cstate[c] = "streaming"
    /\ queue[cjob[c]] # <<>>
    /\ LET event == Head(queue[cjob[c]]) IN
         /\ queue' = [queue EXCEPT ![cjob[c]] = Tail(@)]
         /\ IF event = Sentinel
            THEN /\ cstate' = [cstate EXCEPT ![c] = "ended"]
                 /\ UNCHANGED received
            ELSE /\ received' = [received EXCEPT ![c] = Append(@, event)]
                 /\ UNCHANGED cstate
    /\ UNCHANGED <<jobs, job_queues, issued, now, task, cjob, log, called, born, city>>
    /\ UNCHANGED notJob

Keepalives(c) == Len(SelectSeq(received[c], LAMBDA e : e = Keepalive))

\* stream_job_events: queue.get() timed out after 60 s with the queue empty
StreamKeepalive(c) ==
    /\ cstate[c] = "streaming"
    /\ queue[cjob[c]] = <<>>
    /\ Keepalives(c) < MaxKeepalive
    /\ received' = [received EXCEPT ![c] = Append(@, Keepalive)]
    /\ UNCHANGED <<jobs, job_queues, queue, issued, now, task, cstate, cjob, log, called, born, city>>
    /\ UNCHANGED notJob

\* cleanup_expired_jobs, whenever it is run
Cleanup ==
    /\ Store(cleanup_expired_jobs(JM, now))
    /\ UNCHANGED <<issued, now, task, cstate, cjob, received, born, city>>
    /\ UNCHANGED notJob

\* Time passes, half a time to live at a time
Tick ==
    /\ now < MaxTime * (ttl_seconds \div 2)
    /\ now' = now + (ttl_seconds \div 2)
    /\ UNCHANGED <<jobs, job_queues, queue, issued, task, cstate, cjob, received, log, called, born, city>>
    /\ UNCHANGED notJob

JobInit ==
    /\ jobs = <<>>
    /\ job_queues = {}
    /\ queue = [j \in RegistryIds |-> <<>>]
    /\ issued = 0
    /\ now = 0
    /\ task = [j \in RegistryIds |-> "none"]
    /\ city = [j \in RegistryIds |-> None]
    /\ cstate = [c \in ConsumerIds |-> "idle"]
    /\ cjob = [c \in ConsumerIds |-> UnknownJob]
    /\ received = [c \in ConsumerIds |-> <<>>]
    /\ log = [j \in RegistryIds |-> <<>>]
    /\ called = {}
    /\ born = [j \in RegistryIds |-> -1]

JobNext ==
    \/ recommend_addresses
    \/ \E j \in JobIds : RunStart(j)
    \/ \E j \in JobIds : RunNoAreas(j)
    \/ \E j \in JobIds : RunFinish(j)
    \/ \E c \in ConsumerIds, j \in JobIds \cup {UnknownJob} : StreamConnect(c, j)
    \/ \E c \in ConsumerIds : StreamStart(c)
    \/ \E c \in ConsumerIds : StreamGet(c)
    \/ \E c \in ConsumerIds : StreamKeepalive(c)
    \/ Cleanup
    \/ Tick

----------------------------------------------------------------------------
(***************************************************************************)
(* The JobManager under callers other than the pipeline: any sequence of   *)
(* create_job, emit_stage_update, complete_job and fail_job calls, with    *)
(* any job id.                                                             *)
(***************************************************************************)
\* Direct calls stop once MaxQueue items were put on the job's queue
Room(job_id) == job_id \in RegistryIds => Len(log[job_id]) < MaxQueue

ApiCreateJob ==
    /\ issued < MaxJobs
    /\ issued' = issued + 1
    /\ Store(create_job(JM, issued + 1, now))
    /\ born' = [born EXCEPT ![issued + 1] = now + ttl_seconds]
    /\ UNCHANGED <<now, task, city, cstate, cjob, received>>
    /\ UNCHANGED notJob

ApiEmitStageUpdate(job_id, stage, status) ==
    /\ Room(job_id)
    /\ Store(emit_stage_update(JM, job_id, stage, status))
    /\ UNCHANGED <<issued, now, task, cstate, cjob, received, born, city>>
    /\ UNCHANGED notJob

ApiCompleteJob(job_id, result, degraded) ==
    /\ Room(job_id)
    /\ Store(complete_job(JM, job_id, result, degraded))
    /\ UNCHANGED <<issued, now, task, cstate, cjob, received, born, city>>
    /\ UNCHANGED notJob

ApiFailJob(job_id, error) ==
    /\ Room(job_id)
    /\ Store(fail_job(JM, job_id, error))
    /\ UNCHANGED <<issued, now, task, cstate, cjob, received, born, city>>
    /\ UNCHANGED notJob

\* ensure_future(run_recommendation_job(job_id, ...)) for a job made by create_job
ApiRunJob(job_id) ==
    /\ job_id <= issued
    /\ task[job_id] = "none"
    /\ task' = [task EXCEPT ![job_id] = "scheduled"]
    /\ \E c \in Cities : city' = [city EXCEPT ![job_id] = c]
    /\ UNCHANGED <<jobs, job_queues, queue, issued, now, cstate, cjob, received, log, called, born>>
    /\ UNCHANGED notJob

\* create_job called directly, for one job more than the pipeline is given
RegistryCreateJob ==
    /\ issued < MaxJobs + 1
    /\ issued' = issued + 1
    /\ Store(create_job(JM, issued + 1, now))
    /\ born' = [born EXCEPT ![issued + 1] = now + ttl_seconds]
    /\ UNCHANGED <<now, task, city, cstate, cjob, received>>
    /\ UNCHANGED notJob

\* The registry under create_job, emit_stage_update, complete_job, fail_job
\* and cleanup_expired_jobs, with a consumer and the clock
RegistryNext ==
    \/ RegistryCreateJob
    \/ \E j \in RegistryIds : ApiEmitStageUpdate(j, "GEO", "running")
    \/ \E j \in RegistryIds : ApiCompleteJob(j, "top", FALSE)
    \/ \E j \in RegistryIds : ApiFailJob(j, "boom")
    \/ \E j \in RegistryIds : StreamConnect(1, j)
    \/ StreamStart(1)
    \/ StreamGet(1)
    \/ Cleanup
    \/ Tick

ApiNext ==
    \/ ApiCreateJob
    \/ \E j \in JobIds \cup {UnknownJob}, st \in {"GEO"}, status \in StageStatus :
          ApiEmitStageUpdate(j, st, status)
    \/ \E j \in JobIds \cup {UnknownJob}, r \in Results, d \in BOOLEAN :
          ApiCompleteJob(j, r, d)
    \/ \E j \in JobIds \cup {UnknownJob}, e \in Errors : ApiFailJob(j, e)
    \/ \E j \in JobIds : ApiRunJob(j)
    \/ \E j \in JobIds : RunStart(j)
    \/ \E j \in JobIds : RunNoAreas(j)
    \/ \E j \in JobIds : RunFinish(j)
    \/ Cleanup
    \/ Tick

----------------------------------------------------------------------------
(***************************************************************************)
(* Concepts and outcome learning: models/database.py, routes/concepts.py,  *)
(* services/concept_learner.py, main.py (submit_outcome).                  *)
(*                                                                         *)
(* Units.  Revenue: EUR.  weights: hundredths (0.21 is 21).                *)
(* revenue_variance: thousandths (0.175 is 175).  variance_pct:            *)
(* thousandths of a percent (12.5 % is 12500), exact for the model's       *)
(* predictions.  avg_prediction_error: the exact fraction num/den, in the  *)
(* same unit.                                                              *)
(* Correlations: thousandths, truncated.                                   *)
(***************************************************************************)
FeatureNames == <<"population", "income", "access", "competition", "walkability">>

\* A weights dict, as a record over FeatureNames
Weights(p, i, a, c, w) ==
    [population |-> p, income |-> i, access |-> a, competition |-> c, walkability |-> w]

\* What a JSON column holds after None was assigned to it: JSON null.
\* (Column(JSON) keeps none_as_null=False, so None is stored as the JSON
\* value null, which satisfies NOT NULL.)
NoWeights == [null |-> TRUE]

HasWeights(weights) == weights # NoWeights

\* sum(weights_dict.values())
WeightSum(weights) ==
    weights.population + weights.income + weights.access
        + weights.competition + weights.walkability

\* avg_prediction_error of a concept that was never retrained (SQL NULL)
NoError == [num |-> -1, den |-> 1]

RECURSIVE SeqSum(_)
SeqSum(s) == IF s = <<>> THEN 0 ELSE Head(s) + SeqSum(Tail(s))

Abs(x) == IF x < 0 THEN -x ELSE x

\* int(x) for x = twice / 2: truncation toward zero
IntOfHalf(twice) == IF twice >= 0 THEN twice \div 2 ELSE -((-twice) \div 2)

\* sorted(data)[k-1]: the k-th smallest element of a non-empty sequence
Kth(data, k) ==
    CHOOSE v \in {data[i] : i \in DOMAIN data} :
        /\ Cardinality({i \in DOMAIN data : data[i] < v}) < k
        /\ Cardinality({i \in DOMAIN data : data[i] <= v}) >= k

\* statistics.median_high(data), times two: the upper middle value alone
TwiceMedianHigh(data) == 2 * Kth(data, Len(data) \div 2 + 1)

\* statistics.median(data), times two (the mean of the two middle values of
\* an even-sized list may end in .5)
TwiceMedian(data) ==
    LET n == Len(data) IN
    IF n % 2 = 1
    THEN 2 * Kth(data, (n + 1) \div 2)
    ELSE Kth(data, n \div 2) + Kth(data, n \div 2 + 1)

\* floor of the square root (Newton's iteration)
RECURSIVE Newton(_, _)
Newton(v, x) ==
    LET y == (x + v \div x) \div 2 IN
    IF y >= x THEN x ELSE Newton(v, y)

ISqrt(v) == IF v = 0 THEN 0 ELSE Newton(v, v)

\* _calculate_correlation(x, y): Pearson's r in thousandths, truncated toward
\* zero.  With n = len(x): numerator, x_variance and y_variance are the
\* code's sums multiplied by n (numerator) and n (each variance), which
\* leaves the quotient unchanged and keeps the arithmetic in integers.
\* The lists hold no None here.
calculate_correlation(x, y) ==
    IF Len(x) # Len(y) \/ Len(x) < 2 THEN 0
    ELSE LET n == Len(x)
             sx == SeqSum(x)
             sy == SeqSum(y)
             numerator == n * SeqSum([i \in 1..n |-> x[i] * y[i]]) - sx * sy
             x_variance == n * SeqSum([i \in 1..n |-> x[i] * x[i]]) - sx * sx
             y_variance == n * SeqSum([i \in 1..n |-> y[i] * y[i]]) - sy * sy
             denominator == ISqrt(x_variance * y_variance)
         IN  IF x_variance = 0 \/ y_variance = 0 THEN 0
             ELSE IF numerator >= 0
                  THEN (numerator * 1000) \div denominator
                  ELSE -(((-numerator) * 1000) \div denominator)

\* round(a / b) for a >= 0 and b > 0: to the nearest integer, a tie going
\* to the even one
RoundHalfEven(a, b) ==
    LET q == a \div b
        r == a % b
    IN  IF 2 * r < b THEN q
        ELSE IF 2 * r > b THEN q + 1
        ELSE IF q % 2 = 0 THEN q ELSE q + 1

\* round(a / b, 2), in hundredths
RoundHundredths(a, b) == RoundHalfEven(100 * a, b)

\* Prediction.features / ConceptTrainingOutcome.features_used when the
\* column is empty
NoFeatures == [null |-> TRUE]

\* A features dict.  population_density in thousands per km2, median_income
\* in thousands of EUR, nearest_metro_distance_m in metres,
\* competitors_per_1k_residents and walkability_poi_count as counts
Features(pop, inc, metro, comp, poi) ==
    [population_density |-> pop, median_income |-> inc,
     nearest_metro_distance_m |-> metro,
     competitors_per_1k_residents |-> comp, walkability_poi_count |-> poi]

\* 1 / (nearest_metro_distance_m + 1), in units of 1/400 (exact for the
\* distances 99, 199 and 399 the model uses; the unit does not change a
\* correlation)
InverseDistance(features) == 400 \div (features.nearest_metro_distance_m + 1)

\* actual_revenue_eur in units of 10 000 EUR (the model's revenues are
\* multiples of it; the unit does not change a correlation)
RevenueInUnits(o) == o.actual_revenue_eur \div 10000

\* _optimize_weights: the five lists feature_revenues[name], built from the
\* outcomes that carry features
FeatureColumn(rows, name) ==
    [i \in 1..Len(rows) |->
        CASE name = "population" -> rows[i].features_used.population_density
          [] name = "income" -> rows[i].features_used.median_income
          [] name = "access" -> InverseDistance(rows[i].features_used)
          [] name = "competition" -> rows[i].features_used.competitors_per_1k_residents
          [] name = "walkability" -> rows[i].features_used.walkability_poi_count]

\* max(new_weights, key=new_weights.get): the first key, in dict order,
\* that holds the largest value
MaxKey(weights) ==
    FeatureNames[CHOOSE i \in DOMAIN FeatureNames :
                    /\ \A j \in DOMAIN FeatureNames :
                          weights[FeatureNames[j]] <= weights[FeatureNames[i]]
                    /\ \A j \in 1..(i - 1) :
                          weights[FeatureNames[j]] < weights[FeatureNames[i]]]

\* ConceptLearner thresholds
MIN_OUTCOMES_FOR_TRAINING == 5
MIN_OUTCOMES_FOR_WEIGHTS == 20

\* equal weights, whatever the outcomes
optimize_weights_equal(outcomes) == Weights(20, 20, 20, 20, 20)

\* _optimize_weights(outcomes, current_weights): the new weights, or
\* NoWeights for a return of None
optimize_weights(outcomes) ==
    IF Len(outcomes) < MIN_OUTCOMES_FOR_WEIGHTS THEN NoWeights
    ELSE
    LET rows == SelectSeq(outcomes, LAMBDA o : o.features_used # NoFeatures)
        actual_revenues == [i \in 1..Len(rows) |-> RevenueInUnits(rows[i])]
        correlations ==
            [name \in {FeatureNames[i] : i \in DOMAIN FeatureNames} |->
                Abs(calculate_correlation(FeatureColumn(rows, name), actual_revenues))]
        total_corr == correlations.population + correlations.income + correlations.access
                        + correlations.competition + correlations.walkability
        new_weights ==
            Weights(RoundHundredths(correlations.population, total_corr),
                    RoundHundredths(correlations.income, total_corr),
                    RoundHundredths(correlations.access, total_corr),
                    RoundHundredths(correlations.competition, total_corr),
                    RoundHundredths(correlations.walkability, total_corr))
        weight_sum == WeightSum(new_weights)
    IN  IF total_corr = 0 THEN NoWeights
        ELSE IF weight_sum # 100
             THEN [new_weights EXCEPT ![MaxKey(new_weights)] = @ + (100 - weight_sum)]
             ELSE new_weights

\* The mean absolute percentage error of the outcomes, as an exact fraction
Mape(outcomes) ==
    [num |-> SeqSum([i \in 1..Len(outcomes) |-> Abs(outcomes[i].variance_pct)]),
     den |-> Len(outcomes)]

\* step 3 with 0.10 as the floor of the last band
NewVarianceLowFloor(mape, n) ==
    IF mape.num < 10000 * mape.den THEN 100
    ELSE IF mape.num < 15000 * mape.den THEN 120
    ELSE IF mape.num < 20000 * mape.den THEN 150
    ELSE IF 200 - 5 * n > 100 THEN 200 - 5 * n ELSE 100

\* _retrain_concept, step 3: the new revenue_variance in thousandths
NewVariance(mape, n) ==
    IF mape.num < 10000 * mape.den THEN 100
    ELSE IF mape.num < 15000 * mape.den THEN 120
    ELSE IF mape.num < 20000 * mape.den THEN 150
    ELSE IF 200 - 5 * n > 150 THEN 200 - 5 * n ELSE 150

\* Step 3 on its own, for every MAPE and number of outcomes looked at.
\* MaxPasses passes are kept side by side.
MaxPasses == 2
\* numbers of outcomes of a pass (at least MIN_OUTCOMES_FOR_TRAINING)
OutcomeCounts == {5, 9, 10, 20}
\* mean absolute errors in thousandths of a percent, at and around the
\* thresholds; MapeInputs adds the means that lie just above each of them
MapeLevels == {0, 9999, 10000, 14999, 15000, 19999, 20000, 50000}
MapeInputs(n) == {[num |-> level * n + extra, den |-> n] : level \in MapeLevels, extra \in {0, 1}}

retrain_variance(mape, n) ==
    /\ Len(variance_calls) < MaxPasses
    /\ variance_calls' = Append(variance_calls,
                                [mape |-> mape, count |-> n, new_variance |-> NewVariance(mape, n)])
    /\ UNCHANGED notVariance

VarianceNext == \E n \in OutcomeCounts : \E mape \in MapeInputs(n) : retrain_variance(mape, n)

\* What datetime.utcnow() gives a pass: some time, which is not None
utcnow == "utcnow"

\* a pass that changes nothing
retrain_concept_skipped(concept, outcomes) == concept

\* _retrain_concept: the concept after a pass over `outcomes`, all the
\* training outcomes of the concept the session sees
retrain_concept(concept, outcomes) ==
    IF Len(outcomes) < MIN_OUTCOMES_FOR_TRAINING THEN concept
    ELSE
    LET actual_revenues == [i \in 1..Len(outcomes) |-> outcomes[i].actual_revenue_eur]
        mape == Mape(outcomes)
        trained == [concept EXCEPT
                       !.base_revenue_eur = IntOfHalf(TwiceMedian(actual_revenues)),
                       !.revenue_variance = NewVariance(mape, Len(outcomes)),
                       !.avg_prediction_error = mape,
                       !.last_trained_at = utcnow]
        optimized_weights == optimize_weights(outcomes)
    IN  IF Len(outcomes) >= MIN_OUTCOMES_FOR_WEIGHTS /\ optimized_weights # NoWeights
        THEN [trained EXCEPT !.weights = optimized_weights]
        ELSE trained

----------------------------------------------------------------------------
(***************************************************************************)
(* The tables.  predictions is input data (nothing under src/ inserts a    *)
(* Prediction row); concepts, training and outcome_rows are the committed  *)
(* contents of the concepts, concept_training_outcomes and outcomes tables.*)
(***************************************************************************)
PredictionIds == 1..MaxPredictions
\* a prediction id with no row
UnknownPrediction == 0
\* two concepts are there from the start; every request may add one
ConceptIds == 1..(2 + MaxRequests)
\* a concept id with no row
UnknownConcept == 0
\* Prediction.concept_id of a prediction made without a concept (NULL)
NoConcept == 0
SessionIds == 1..MaxSessions

\* the seeded system default concept and the customer's concept that the
\* predictions were made with
SystemConcept == 1
CustomConcept == 2

Customers == {"system", "acme"}

\* The predictions table: prediction 1 has no concept, prediction 2 was
\* scored with the system default, the others with the customer's concept;
\* every fourth prediction carries no features
Prediction(p) ==
    [concept_id |-> IF p = 1 THEN NoConcept ELSE IF p = 2 THEN SystemConcept ELSE CustomConcept,
     revenue_mid |-> 100000,
     features |-> IF p % 4 = 0 THEN NoFeatures
                  ELSE IF p % 2 = 1 THEN Features(4, 35, 199, 3, 20)
                  ELSE Features(2, 45, 99, 1, 10)]

\* actual_revenue of an OutcomeSubmission
Actuals == {80000, 150000}

\* variance_pct = ((actual_revenue - revenue_mid) / revenue_mid) * 100, in
\* thousandths of a percent (revenue_mid is a multiple of 100000 in the
\* model, which makes it a whole number of them)
VariancePct(actual_revenue, revenue_mid) ==
    LET per_thousandth == revenue_mid \div 100000
        difference == actual_revenue - revenue_mid
    IN  IF difference >= 0 THEN difference \div per_thousandth
        ELSE -((-difference) \div per_thousandth)

\* A ConceptTrainingOutcome row
TrainingOutcome(concept_id, prediction_id, prediction, actual_revenue) ==
    [concept_id |-> concept_id,
     prediction_id |-> prediction_id,
     predicted_revenue_eur |-> prediction.revenue_mid,
     features_used |-> prediction.features,
     actual_revenue_eur |-> actual_revenue,
     variance_pct |-> VariancePct(actual_revenue, prediction.revenue_mid),
     used_in_training |-> FALSE]

\* A concept row as create_concept, clone_concept and the seed script make it
NewConcept(customer_id, base_revenue_eur, revenue_variance, weights, is_system_default) ==
    [customer_id |-> customer_id,
     base_revenue_eur |-> base_revenue_eur,
     revenue_variance |-> revenue_variance,
     weights |-> weights,
     outcomes_count |-> 0,
     avg_prediction_error |-> NoError,
     last_trained_at |-> None,
     is_system_default |-> is_system_default,
     is_active |-> TRUE]

\* The outcomes already recorded for the customer's concept when the model
\* starts: n earlier record_outcome calls, for predictions 101, 102, ...
EarlierOutcome(i) ==
    LET row == TrainingOutcome(CustomConcept, 100 + i,
                   [revenue_mid |-> 100000,
                    features |-> IF i % 3 = 0 THEN Features(5, 30, 199, 4, 30)
                                 ELSE IF i % 3 = 1 THEN Features(3, 30, 99, 2, 10)
                                 ELSE Features(2, 40, 399, 1, 20)],
                   IF i % 3 = 0 THEN 130000 ELSE IF i % 3 = 1 THEN 90000 ELSE 100000)
    IN  row

\* _retrain_concept marks every outcome it read
MarkUsed(rows) == [i \in 1..Len(rows) |-> [rows[i] EXCEPT !.used_in_training = TRUE]]

\* the training table after n earlier outcomes: the last pass (if any ran)
\* marked them all
EarlierTraining(n) ==
    LET rows == [i \in 1..n |-> EarlierOutcome(i)] IN
    IF n >= MIN_OUTCOMES_FOR_TRAINING THEN MarkUsed(rows) ELSE rows

\* the customer's concept after n earlier outcomes: created with weights
\* summing to 0.97, counted n times, retrained by the last pass
EarlierConcept(n) ==
    retrain_concept([NewConcept("acme", 120000, 200, Weights(30, 30, 20, 10, 7), FALSE)
                        EXCEPT !.outcomes_count = n],
                    [i \in 1..n |-> EarlierOutcome(i)])

\* the outcomes of the concept that no pass has used yet
UnusedOutcomesOf(rows, concept_id) ==
    SelectSeq(rows, LAMBDA o : o.concept_id = concept_id /\ ~o.used_in_training)

\* the rows of training that belong to a concept, in table order
OutcomesOf(rows, concept_id) == SelectSeq(rows, LAMBDA o : o.concept_id = concept_id)

----------------------------------------------------------------------------
(***************************************************************************)
(* routes/concepts.py.  Every handler runs on its own session and ends in  *)
(* one commit; a commit waits while another session holds the database's   *)
(* write lock.                                                             *)
(***************************************************************************)
\* A database that lets any number of sessions write at once
NoWriteLock(s) == TRUE

\* The engine is SQLite (DATABASE_URL defaults to sqlite:///./spotlight.db):
\* one write transaction at a time.  A session may write when no other
\* session is inside a write transaction.
WriteLockFree(s) == writer \in {0, s}

\* the handlers of routes/concepts.py use a session of their own
RouteSession == 0

\* ConceptCreate.base_revenue_eur / ConceptUpdate.base_revenue_eur
BaseRevenues == {120000}

\* The weights of a request body.  ConceptWeights has already refused any
\* single weight outside [0, 1]; the sums are 0.95, 1.05, 0.94, 1.06
WeightInputs ==
    {Weights(19, 19, 19, 19, 19), Weights(21, 21, 21, 21, 21),
     Weights(20, 20, 20, 20, 14), Weights(22, 21, 21, 21, 21)}

\* the validation with a tolerance of 0.25 in place of 0.05
WeightsRejectedLoosely(weights) == ~(75 <= WeightSum(weights) /\ WeightSum(weights) <= 125)

\* not (0.95 <= total_weight <= 1.05)
WeightsRejected(weights) == ~(95 <= WeightSum(weights) /\ WeightSum(weights) <= 105)

\* POST /api/concepts
create_concept(customer_id, base_revenue_eur, weights) ==
    /\ WriteLockFree(RouteSession)
    /\ IF customer_id \notin Customers
       THEN /\ http_status' = 404
            /\ UNCHANGED concepts
       ELSE IF WeightsRejected(weights)
       THEN /\ http_status' = 400
            /\ UNCHANGED concepts
       ELSE /\ http_status' = 200
            /\ concepts' = DictSet(concepts, Cardinality(DOMAIN concepts) + 1,
                                   NewConcept(customer_id, base_revenue_eur, 200, weights, FALSE))
    /\ requests < MaxRequests
    /\ requests' = requests + 1
    /\ UNCHANGED <<training, outcome_rows, writer, spc, sess>>
    /\ UNCHANGED notConcept

\* updates.model_dump(exclude_unset=True): the fields the body set, with
\* their values; "weights": null is a body that sets weights to None
UpdateInputs ==
    {[weights |-> w] : w \in WeightInputs \cup {NoWeights}}
        \cup {[base_revenue_eur |-> b] : b \in BaseRevenues \cup {-100000}}
        \cup {[is_active |-> FALSE]}

\* for field, value in update_data.items(): setattr(concept, field, value)
SetAttrs(concept, update_data) ==
    [f \in DOMAIN concept |-> IF f \in DOMAIN update_data THEN update_data[f] ELSE concept[f]]

\* PATCH /api/concepts/{concept_id}
update_concept(concept_id, update_data) ==
    /\ WriteLockFree(RouteSession)
    /\ IF concept_id \notin DOMAIN concepts
       THEN /\ http_status' = 404
            /\ UNCHANGED concepts
       ELSE IF concepts[concept_id].is_system_default
       THEN /\ http_status' = 403
            /\ UNCHANGED concepts
       ELSE IF /\ "weights" \in DOMAIN update_data
               /\ update_data.weights # NoWeights
               /\ WeightsRejected(update_data.weights)
       THEN /\ http_status' = 400
            /\ UNCHANGED concepts
       ELSE \* committed; a row whose weights are now null then fails the
            \* response model (weights: dict), after the commit
            /\ http_status' = IF "weights" \in DOMAIN update_data /\ update_data.weights = NoWeights
                         THEN 500 ELSE 200
            /\ concepts' = [concepts EXCEPT ![concept_id] = SetAttrs(@, update_data)]
    /\ requests < MaxRequests
    /\ requests' = requests + 1
    /\ UNCHANGED <<training, outcome_rows, writer, spc, sess>>
    /\ UNCHANGED notConcept

\* POST /api/concepts/{concept_id}/clone
clone_concept(concept_id, customer_id) ==
    /\ WriteLockFree(RouteSession)
    /\ IF concept_id \notin DOMAIN concepts \/ customer_id \notin Customers
       THEN /\ http_status' = 404
            /\ UNCHANGED concepts
       ELSE /\ http_status' = IF HasWeights(concepts[concept_id].weights) THEN 200 ELSE 500
            /\ concepts' = DictSet(concepts, Cardinality(DOMAIN concepts) + 1,
                                   NewConcept(customer_id,
                                              concepts[concept_id].base_revenue_eur,
                                              concepts[concept_id].revenue_variance,
                                              concepts[concept_id].weights, FALSE))
    /\ requests < MaxRequests
    /\ requests' = requests + 1
    /\ UNCHANGED <<training, outcome_rows, writer, spc, sess>>
    /\ UNCHANGED notConcept

\* DELETE /api/concepts/{concept_id}
delete_concept(concept_id) ==
    /\ WriteLockFree(RouteSession)
    /\ IF concept_id \notin DOMAIN concepts
       THEN /\ http_status' = 404
            /\ UNCHANGED concepts
       ELSE IF concepts[concept_id].is_system_default
       THEN /\ http_status' = 403
            /\ UNCHANGED concepts
       ELSE /\ http_status' = 200
            /\ concepts' = [concepts EXCEPT ![concept_id].is_active = FALSE]
    /\ requests < MaxRequests
    /\ requests' = requests + 1
    /\ UNCHANGED <<training, outcome_rows, writer, spc, sess>>
    /\ UNCHANGED notConcept

----------------------------------------------------------------------------
(***************************************************************************)
(* main.py submit_outcome and ConceptLearner.record_outcome, one request   *)
(* per session.  What a session has flushed is visible to it alone until   *)
(* it commits.                                                             *)
(***************************************************************************)
\* a session between requests
IdleSession == [prediction_id |-> UnknownPrediction, actual_revenue |-> 0]

\* the duplicate check left out
no_existing_outcome(prediction_id) == FALSE

\* submit_outcome: existing_outcome, the Outcome row of the prediction
existing_outcome(prediction_id) == prediction_id \in outcome_rows

\* POST /api/outcomes up to the call of record_outcome: the prediction
\* lookup, the duplicate check, the Outcome row and its commit
submit_outcome(s, prediction_id, actual_revenue) ==
    /\ spc[s] = "idle"
    /\ IF prediction_id \notin PredictionIds
       THEN /\ http_status' = 404
            /\ UNCHANGED <<outcome_rows, spc, sess>>
       ELSE IF existing_outcome(prediction_id)
       THEN /\ http_status' = 400
            /\ UNCHANGED <<outcome_rows, spc, sess>>
       ELSE /\ WriteLockFree(s)
            /\ outcome_rows' = outcome_rows \cup {prediction_id}
            /\ IF Prediction(prediction_id).concept_id # NoConcept
               THEN /\ spc' = [spc EXCEPT ![s] = "record"]
                    /\ sess' = [sess EXCEPT ![s] = [prediction_id |-> prediction_id,
                                                    actual_revenue |-> actual_revenue]]
                    /\ UNCHANGED http_status
               ELSE /\ http_status' = 200
                    /\ UNCHANGED <<spc, sess>>
    /\ UNCHANGED <<concepts, training, writer, requests>>
    /\ UNCHANGED notConcept

\* ConceptLearner(db).record_outcome called on a session, by any caller
record_outcome(s, prediction_id, actual_revenue) ==
    /\ spc[s] = "idle"
    /\ spc' = [spc EXCEPT ![s] = "record"]
    /\ sess' = [sess EXCEPT ![s] = [prediction_id |-> prediction_id,
                                    actual_revenue |-> actual_revenue]]
    /\ UNCHANGED <<concepts, training, outcome_rows, writer, http_status, requests>>
    /\ UNCHANGED notConcept

\* the call is over with every exception swallowed
LeaveQuietly(s, status_code) ==
    /\ spc' = [spc EXCEPT ![s] = "idle"]
    /\ sess' = [sess EXCEPT ![s] = IdleSession]
    /\ http_status' = 200

\* the call is over and the session is given back; an exception that
\* reaches the caller is answered with status 500
Leave(s, status_code) ==
    /\ spc' = [spc EXCEPT ![s] = "idle"]
    /\ sess' = [sess EXCEPT ![s] = IdleSession]
    /\ http_status' = status_code

\* record_outcome, lines 51-82: the prediction is looked up (ValueError
\* when there is none, an early return when it has no concept), the
\* training outcome is built and flushed.  The INSERT opens the session's
\* write transaction, and fails on the unique prediction_id when the
\* prediction has a training outcome already.
record_flush(s) ==
    /\ spc[s] = "record"
    /\ IF sess[s].prediction_id \notin PredictionIds
       THEN Leave(s, 500) /\ UNCHANGED writer
       ELSE IF Prediction(sess[s].prediction_id).concept_id = NoConcept
       THEN Leave(s, 200) /\ UNCHANGED writer
       ELSE /\ WriteLockFree(s)
            /\ IF \E i \in 1..Len(training) : training[i].prediction_id = sess[s].prediction_id
               THEN Leave(s, 500) /\ UNCHANGED writer
               ELSE /\ writer' = s
                    /\ LET prediction == Prediction(sess[s].prediction_id) IN
                       sess' = [sess EXCEPT ![s] =
                                   [prediction_id |-> @.prediction_id,
                                    actual_revenue |-> @.actual_revenue,
                                    training_outcome |->
                                        TrainingOutcome(prediction.concept_id, @.prediction_id,
                                                        prediction, @.actual_revenue)]]
                    /\ spc' = [spc EXCEPT ![s] = "learn"]
                    /\ UNCHANGED http_status
    /\ UNCHANGED <<concepts, training, outcome_rows, requests>>
    /\ UNCHANGED notConcept

\* record_outcome, lines 85-96: the concept is loaded, counted, and
\* retrained from what the session sees of the training table: the
\* committed rows and its own flushed one
record_learn(s) ==
    /\ spc[s] = "learn"
    /\ LET concept_id == sess[s].training_outcome.concept_id
           loaded == concepts[concept_id]
           counted == [loaded EXCEPT !.outcomes_count = @ + 1]
           outcomes == Append(OutcomesOf(training, concept_id), sess[s].training_outcome)
           triggered_retraining == counted.outcomes_count >= MIN_OUTCOMES_FOR_TRAINING
       IN  sess' = [sess EXCEPT ![s] =
                       [prediction_id |-> @.prediction_id,
                        actual_revenue |-> @.actual_revenue,
                        training_outcome |-> @.training_outcome,
                        loaded |-> loaded,
                        concept |-> IF triggered_retraining
                                    THEN retrain_concept(counted, outcomes)
                                    ELSE counted,
                        marked |-> IF triggered_retraining
                                         /\ Len(outcomes) >= MIN_OUTCOMES_FOR_TRAINING
                                   THEN {outcomes[i].prediction_id : i \in 1..Len(outcomes)}
                                   ELSE {}]]
    /\ spc' = [spc EXCEPT ![s] = "commit"]
    /\ UNCHANGED <<concepts, training, outcome_rows, writer, http_status, requests>>
    /\ UNCHANGED notConcept

\* The UPDATE a flush emits for a loaded row sets the attributes the
\* session changed, and no others
Flushed(row, loaded, mine) ==
    [f \in DOMAIN row |-> IF mine[f] # loaded[f] THEN mine[f] ELSE row[f]]

\* record_outcome, line 98: commit.  The concept's row, the marks on the
\* outcomes the pass read (sess[s].marked), and the new outcome reach the
\* tables
record_commit(s) ==
    /\ spc[s] = "commit"
    /\ LET concept_id == sess[s].training_outcome.concept_id
           mine == [sess[s].training_outcome EXCEPT
                       !.used_in_training =
                           (sess[s].training_outcome.prediction_id \in sess[s].marked)]
       IN  /\ concepts' = [concepts EXCEPT ![concept_id] =
                              Flushed(@, sess[s].loaded, sess[s].concept)]
           /\ training' = Append([i \in 1..Len(training) |->
                                     IF training[i].prediction_id \in sess[s].marked
                                     THEN [training[i] EXCEPT !.used_in_training = TRUE]
                                     ELSE training[i]],
                                 mine)
    /\ writer' = IF writer = s THEN 0 ELSE writer
    /\ spc' = [spc EXCEPT ![s] = "idle"]
    /\ sess' = [sess EXCEPT ![s] = IdleSession]
    /\ http_status' = 200
    /\ UNCHANGED <<outcome_rows, requests>>
    /\ UNCHANGED notConcept

\* _retrain_concept called once more for a concept that has reached
\* MIN_OUTCOMES_FOR_TRAINING outcomes, as record_outcome calls it, and
\* committed; variance_calls keeps the MAPE, the number of outcomes and the
\* variance of each such pass
retrain_pass(concept_id) ==
    /\ WriteLockFree(RouteSession)
    /\ concept_id \in DOMAIN concepts
    /\ concepts[concept_id].outcomes_count >= MIN_OUTCOMES_FOR_TRAINING
    /\ Len(variance_calls) < MaxPasses
    /\ LET outcomes == OutcomesOf(training, concept_id)
           passed == Len(outcomes) >= MIN_OUTCOMES_FOR_TRAINING
       IN  /\ concepts' = [concepts EXCEPT ![concept_id] = retrain_concept(@, outcomes)]
           /\ training' = [i \in 1..Len(training) |->
                              IF passed /\ \E k \in 1..Len(outcomes) :
                                               outcomes[k].prediction_id = training[i].prediction_id
                              THEN [training[i] EXCEPT !.used_in_training = TRUE]
                              ELSE training[i]]
           /\ variance_calls' = Append(variance_calls,
                                       [mape |-> Mape(outcomes), count |-> Len(outcomes),
                                        new_variance |-> NewVariance(Mape(outcomes), Len(outcomes))])
    /\ UNCHANGED <<outcome_rows, writer, spc, sess, http_status, requests>>
    /\ UNCHANGED <<jobVars, scoreVars, generatorVars, candidateVars, trustVars>>

\* The database after n earlier outcomes for the customer's concept, n
\* drawn from `earlier`, with no request in progress
ConceptInit(earlier) ==
    /\ \E n \in earlier :
          /\ concepts = <<NewConcept("system", 100000, 200, Weights(35, 25, 20, 10, 10), TRUE),
                          EarlierConcept(n)>>
          /\ training = EarlierTraining(n)
    /\ outcome_rows = {}
    /\ writer = 0
    /\ spc = [s \in SessionIds |-> "idle"]
    /\ sess = [s \in SessionIds |-> IdleSession]
    /\ http_status = 0
    /\ requests = 0

\* The database after n earlier outcomes of predictions that carried no
\* features (features_used is empty in every row)
PlainOutcome(i) == [EarlierOutcome(i) EXCEPT !.features_used = NoFeatures]

PlainInit(earlier) ==
    /\ \E n \in earlier :
          /\ concepts = <<NewConcept("system", 100000, 200, Weights(35, 25, 20, 10, 10), TRUE),
                          retrain_concept([NewConcept("acme", 120000, 200,
                                                      Weights(30, 30, 20, 10, 7), FALSE)
                                              EXCEPT !.outcomes_count = n],
                                          [i \in 1..n |-> PlainOutcome(i)])>>
          /\ training = MarkUsed([i \in 1..n |-> PlainOutcome(i)])
    /\ outcome_rows = {}
    /\ writer = 0
    /\ spc = [s \in SessionIds |-> "idle"]
    /\ sess = [s \in SessionIds |-> IdleSession]
    /\ http_status = 0
    /\ requests = 0

\* The requests of routes/concepts.py
CrudNext ==
    \/ \E customer_id \in {"acme", "nobody"}, b \in BaseRevenues, w \in WeightInputs :
          create_concept(customer_id, b, w)
    \/ \E c \in ConceptIds \cup {UnknownConcept}, u \in UpdateInputs : update_concept(c, u)
    \/ \E c \in ConceptIds \cup {UnknownConcept}, customer_id \in {"acme", "nobody"} :
          clone_concept(c, customer_id)
    \/ \E c \in ConceptIds \cup {UnknownConcept} : delete_concept(c)

\* POST /api/outcomes requests on the given sessions, reporting the given revenues
OutcomeNext(sessions, actuals) ==
    \/ \E s \in sessions, p \in PredictionIds \cup {UnknownPrediction}, a \in actuals :
          submit_outcome(s, p, a)
    \/ \E s \in sessions : record_flush(s)
    \/ \E s \in sessions : record_learn(s)
    \/ \E s \in sessions : record_commit(s)

\* Concept management with outcome submissions arriving one at a time
ConceptNext == CrudNext \/ OutcomeNext({1}, {150000})

\* Outcome submissions arriving together, each on its own session
SessionsNext == OutcomeNext(SessionIds, Actuals)

\* Outcome submissions, and retraining passes run again between them
RetrainNext == SessionsNext \/ \E c \in ConceptIds : retrain_pass(c)

\* ConceptLearner.record_outcome driven by arbitrary callers
LearnerNext ==
    \/ \E s \in SessionIds, p \in PredictionIds \cup {UnknownPrediction}, a \in Actuals :
          record_outcome(s, p, a)
    \/ \E s \in SessionIds : record_flush(s)
    \/ \E s \in SessionIds : record_learn(s)
    \/ \E s \in SessionIds : record_commit(s)

\* actual revenues that are not round numbers
LearnActuals == {80000, 95001}

\* Outcome submissions arriving one at a time while the concept has too few
\* outcomes for its weights to be retrained
LearnNext == OutcomeNext({1}, LearnActuals)

----------------------------------------------------------------------------
(***************************************************************************)
(* ScoringEngine (agents/scorer.py).  Units: component scores in           *)
(* hundredths of a point, the overall score in tenths of a point (what     *)
(* round(., 1) keeps), weights and confidence in hundredths, multipliers   *)
(* and the band in thousandths, competitors per 1k residents in tenths,    *)
(* revenue in EUR.                                                         *)
(***************************************************************************)
Min(a, b) == IF a <= b THEN a ELSE b
Max(a, b) == IF a >= b THEN a ELSE b

\* features.get(field) when the field is missing
Missing == -1

\* a field that is present and holds None, as collect_area_data writes it
\* when a lookup returned nothing
Null == -2

\* features.get(field) is None
IsNone(value) == value \in {Missing, Null}

\* _calculate_population_score
calculate_population_score(density, optimal) ==
    IF density >= optimal THEN 10000
    ELSE IF density <= 0 THEN 0
    ELSE (density * 10000) \div optimal

\* _calculate_income_score
calculate_income_score(median_income, target_min, target_max) ==
    IF median_income < target_min
    THEN LET gap == target_min - median_income
             penalty == Min((gap * 10000) \div target_min, 5000)
         IN  Max(5000 - penalty, 0)
    ELSE IF median_income > target_max
    THEN LET gap == median_income - target_max
             penalty == Min((gap * 5000) \div target_max, 2500)
         IN  Max(7500 - penalty, 5000)
    ELSE LET twice_distance == Abs(2 * median_income - (target_min + target_max))
             twice_max_distance == target_max - target_min
             score == 10000 - (twice_distance * 1500) \div twice_max_distance
         IN  Max(score, 8500)

\* _calculate_access_score
calculate_access_score(metro_distance_m, tram_distance_m) ==
    LET metro == IF IsNone(metro_distance_m) THEN 0
                 ELSE IF metro_distance_m <= 200 THEN 4000
                 ELSE IF metro_distance_m <= 500 THEN 3000
                 ELSE IF metro_distance_m <= 1000 THEN 1500
                 ELSE 0
        tram == IF IsNone(tram_distance_m) THEN 0
                ELSE IF tram_distance_m <= 100 THEN 1000
                ELSE IF tram_distance_m <= 300 THEN 500
                ELSE 0
    IN  Min(5000 + metro + tram, 10000)

\* _calculate_competition_score: ratio = competitors_per_1k / target
calculate_competition_score(competitors_per_1k, target) ==
    IF competitors_per_1k = 0 THEN 4000
    ELSE IF 8 * target <= 10 * competitors_per_1k /\ 10 * competitors_per_1k <= 12 * target
    THEN 10000
    ELSE IF 5 * target <= 10 * competitors_per_1k /\ 10 * competitors_per_1k < 8 * target
    THEN 8500
    ELSE IF 12 * target < 10 * competitors_per_1k /\ 10 * competitors_per_1k <= 15 * target
    THEN 7500
    ELSE IF 10 * competitors_per_1k > 15 * target
    THEN LET penalty == Min(((2 * competitors_per_1k - 3 * target) * 1500) \div target, 5000)
         IN  Max(5000 - penalty, 2000)
    ELSE 6000

\* _calculate_walkability_score
calculate_walkability_score(poi_count) ==
    IF poi_count >= 100 THEN 10000
    ELSE IF poi_count >= 50 THEN 8500
    ELSE IF poi_count >= 25 THEN 7000
    ELSE IF poi_count >= 10 THEN 5500
    ELSE Max(poi_count * 300, 2000)

\* features.get(field, 0): the default stands in for a missing key only, a
\* key that holds None yields None
GetOrZero(value) == IF value = Missing THEN 0 ELSE value

\* what calculate_score raises
ValueError == [raised |-> "ValueError"]
TypeError == [raised |-> "TypeError"]

\* _get_concept_config returning (None, None)
NoConfig == [unknown |-> TRUE]

\* The comparisons and divisions of the component scorers applied to None:
\* None >= optimal, None < target_min, None / target, None >= 100
RaisesTypeError(features) ==
    \/ GetOrZero(features.population_density) = Null
    \/ GetOrZero(features.median_income) = Null
    \/ GetOrZero(features.competitors_per_1k_residents) = Null
    \/ GetOrZero(features.walkability_poi_count) = Null

\* _calculate_revenue, in EUR
calculate_revenue(base_revenue, population_density, median_income, competitors_per_1k, concept_config) ==
    LET pop_multiplier ==
            Min((population_density * 1000) \div concept_config.optimal_population_density,
                1500)
        twice_target_mid == concept_config.target_income_min + concept_config.target_income_max
        income_multiplier ==
            IF median_income > 0
            THEN Max(Min(700 + (median_income * 600) \div twice_target_mid, 1300), 700)
            ELSE 1000
        target_comp == concept_config.target_competitors_per_1k
        saturation_penalty ==
            IF competitors_per_1k > target_comp
            THEN Min(((competitors_per_1k - target_comp) * 300) \div target_comp, 400)
            ELSE 0
        revenue == (((((base_revenue * pop_multiplier) \div 1000) * income_multiplier)
                        \div 1000) * (1000 - saturation_penalty)) \div 1000
    IN  Max(revenue, base_revenue \div 2)

\* _calculate_confidence: 0.6 + 0.4 * present / 4, in hundredths
calculate_confidence(features) ==
    LET required_fields == {"population_density", "median_income", "competitors_count",
                            "nearest_metro_distance_m"}
        present == Cardinality({field \in required_fields : ~IsNone(features[field])})
    IN  60 + present * 10

\* calculate_score: the dict it returns, or the exception it raises
calculate_score(features, concept_config) ==
    IF concept_config = NoConfig THEN ValueError
    ELSE IF RaisesTypeError(features) \/ ~HasWeights(concept_config.weights) THEN TypeError
    ELSE
    LET population_score ==
            calculate_population_score(GetOrZero(features.population_density),
                                       concept_config.optimal_population_density)
        income_score ==
            calculate_income_score(GetOrZero(features.median_income),
                                   concept_config.target_income_min,
                                   concept_config.target_income_max)
        access_score ==
            calculate_access_score(features.nearest_metro_distance_m,
                                   features.nearest_tram_distance_m)
        competition_score ==
            calculate_competition_score(GetOrZero(features.competitors_per_1k_residents),
                                        concept_config.target_competitors_per_1k)
        walkability_score ==
            calculate_walkability_score(GetOrZero(features.walkability_poi_count))
        weights == concept_config.weights
        overall_score == weights.population * population_score
                         + weights.income * income_score
                         + weights.access * access_score
                         + weights.competition * competition_score
                         + weights.walkability * walkability_score
        revenue_mid ==
            calculate_revenue(concept_config.base_revenue_eur,
                              GetOrZero(features.population_density),
                              GetOrZero(features.median_income),
                              GetOrZero(features.competitors_per_1k_residents),
                              concept_config)
        confidence == calculate_confidence(features)
        band_percent == 150 + (150 * (100 - confidence)) \div 100
    IN  [score |-> RoundHalfEven(overall_score, 1000),
         revenue_low |-> RoundHalfEven(revenue_mid * (1000 - band_percent), 1000),
         revenue_mid |-> revenue_mid,
         revenue_high |-> RoundHalfEven(revenue_mid * (1000 + band_percent), 1000),
         confidence |-> confidence,
         score_components |-> Weights(RoundHalfEven(population_score, 10),
                                      RoundHalfEven(income_score, 10),
                                      RoundHalfEven(access_score, 10),
                                      RoundHalfEven(competition_score, 10),
                                      RoundHalfEven(walkability_score, 10))]

\* A features dict as calculate_score reads it
SiteFeatures(pop, inc, metro, tram, comp, count, poi) ==
    [population_density |-> pop, median_income |-> inc,
     nearest_metro_distance_m |-> metro, nearest_tram_distance_m |-> tram,
     competitors_per_1k_residents |-> comp, competitors_count |-> count,
     walkability_poi_count |-> poi]

\* The feature sets looked at: each factor at its best, in between, at its
\* worst, missing and None
FeatureInputs ==
    {SiteFeatures(pop, inc, metro, tram, comp, IF comp = Missing THEN Missing ELSE comp, poi) :
        pop \in {Missing, Null, 2500, 5000},
        inc \in {Missing, Null, 20000, 40000, 70000},
        metro \in {Missing, Null, 150, 800},
        tram \in {Missing, 50},
        comp \in {Missing, 20, 60},
        poi \in {5, 120}}

\* _db_concept_to_config of a concept whose weights passed the validation of
\* create_concept: each weight in [0,1], the sum within [0.95,1.05]
ConceptConfig(weights) ==
    [base_revenue_eur |-> 120000, target_income_min |-> 30000, target_income_max |-> 50000,
     optimal_population_density |-> 5000, target_competitors_per_1k |-> 20,
     weights |-> weights]

ConceptConfigs ==
    {ConceptConfig(w) : w \in {w \in WeightInputs \cup {Weights(35, 25, 20, 10, 10),
                                                      Weights(100, 0, 0, 0, 0)} :
                                 ~WeightsRejected(w)}}

NoResult == [score |-> -1]

\* ScoringEngine.calculate_score called with features and a known concept
ScoreCall ==
    /\ scorer_pc = "called"
    /\ score_result' = calculate_score(scoring.features, scoring.concept_config)
    /\ scorer_pc' = IF score_result' \in {ValueError, TypeError} THEN "raised" ELSE "returned"
    /\ UNCHANGED scoring
    /\ UNCHANGED notScore

ScoreInit ==
    /\ scorer_pc = "called"
    /\ scoring \in [features : FeatureInputs, concept_config : ConceptConfigs \cup {NoConfig}]
    /\ score_result = NoResult

ScoreNext == ScoreCall

\* _db_concept_to_config: the fields of the row that the model keeps, the
\* targets as in ConceptConfig
db_concept_to_config(db_concept) ==
    [ConceptConfig(db_concept.weights) EXCEPT
        !.base_revenue_eur = db_concept.base_revenue_eur]

\* _get_concept_config: the active concept with the given id, otherwise
\* the active system default, otherwise nothing (no YAML concept is loaded)
get_concept_config(concept_id) ==
    LET defaults == {c \in DOMAIN concepts :
                        concepts[c].is_system_default /\ concepts[c].is_active}
    IN  IF concept_id \in DOMAIN concepts /\ concepts[concept_id].is_active
        THEN db_concept_to_config(concepts[concept_id])
        ELSE IF defaults # {}
        THEN db_concept_to_config(concepts[CHOOSE c \in defaults : \A d \in defaults : c <= d])
        ELSE NoConfig

\* calculate_score(features, concept, concept_id) against the concepts table
ScoreConcept(features, concept_id) ==
    /\ scoring' = [features |-> features, concept_config |-> get_concept_config(concept_id)]
    /\ score_result' = calculate_score(features, scoring'.concept_config)
    /\ scorer_pc' = IF score_result' \in {ValueError, TypeError} THEN "raised" ELSE "returned"
    /\ UNCHANGED notScore

\* features of a good site and of a site nothing is known about
RevenueFeatures ==
    {SiteFeatures(5000, 40000, 150, 50, 20, 20, 120),
     SiteFeatures(Missing, Missing, Missing, Missing, Missing, Missing, 5)}

\* Weights whose sums are 0.80, 1.20, 0.97, and the nearest to the bounds
\* on either side: 0.94, 0.95, 1.05, 1.06
ValidationWeights ==
    WeightInputs \cup {Weights(20, 20, 20, 10, 10), Weights(30, 30, 20, 20, 20),
                       Weights(30, 30, 20, 10, 7)}

\* Update bodies that set the weights alone, or the weights and the base
\* revenue together
ValidationUpdates ==
    {[weights |-> w] : w \in ValidationWeights}
        \cup {[weights |-> w, base_revenue_eur |-> 90000] : w \in ValidationWeights}

\* Create and update requests that carry weights
ValidationNext ==
    \/ \E customer_id \in {"acme", "nobody"}, b \in BaseRevenues, w \in ValidationWeights :
          create_concept(customer_id, b, w)
    \/ \E c \in ConceptIds \cup {UnknownConcept}, u \in ValidationUpdates :
          update_concept(c, u)

\* Concept management with sites scored against the stored concepts
RevenueNext ==
    \/ CrudNext
    \/ \E f \in RevenueFeatures, c \in ConceptIds \cup {NoConcept} : ScoreConcept(f, c)

----------------------------------------------------------------------------
(***************************************************************************)
(* AddressGenerator (services/address_generator.py): deduplication, sort   *)
(* and limit.  A candidate is a dict with 'lat', 'lng' and 'score' (and    *)
(* its 'address', here a number).  Coordinates are metres of arc north and *)
(* east of a point on the equator, where over a few hundred metres the     *)
(* haversine distance is the planar one; distances are kept in whole       *)
(* metres, rounded down, which leaves every comparison with a whole number *)
(* of metres as it is.                                                     *)
(***************************************************************************)
MaxCandidates == 3

\* _haversine_distance, in metres
haversine_distance(lat1, lng1, lat2, lng2) ==
    ISqrt((lat2 - lat1) * (lat2 - lat1) + (lng2 - lng1) * (lng2 - lng1))

\* generate_candidates, step 3: min_distance_m=80
min_distance_m == 80

\* generate_candidates: limit: int = 10
default_limit == 10

\* sorted(candidates, key=lambda x: x['score'], reverse=True), one insertion:
\* the sort is stable, equal scores stay in the order they came
InsertByScore(sorted, candidate) ==
    LET k == Cardinality({i \in 1..Len(sorted) : sorted[i].score >= candidate.score})
    IN  SubSeq(sorted, 1, k) \o <<candidate>> \o SubSeq(sorted, k + 1, Len(sorted))

RECURSIVE sorted_by_score_from(_, _)
sorted_by_score_from(sorted, candidates) ==
    IF candidates = <<>> THEN sorted
    ELSE sorted_by_score_from(InsertByScore(sorted, Head(candidates)), Tail(candidates))

\* the candidates left in the order they came
unsorted(candidates) == candidates

\* sorted(candidates, key=lambda x: x['score'], reverse=True)
sorted_by_score(candidates) == sorted_by_score_from(<<>>, candidates)

\* the candidate compared with the kept candidate appended last only
too_close_to_last(candidate, kept, min_distance) ==
    /\ kept # <<>>
    /\ haversine_distance(candidate.lat, candidate.lng,
                          kept[Len(kept)].lat, kept[Len(kept)].lng) < min_distance

\* _deduplicate_by_distance, the inner loop: too close to any kept candidate
too_close(candidate, kept, min_distance) ==
    \E i \in 1..Len(kept) :
        haversine_distance(candidate.lat, candidate.lng, kept[i].lat, kept[i].lng)
            < min_distance

\* _deduplicate_by_distance, the outer loop over sorted_candidates
RECURSIVE KeepLoop(_, _, _)
KeepLoop(kept, sorted_candidates, min_distance) ==
    IF sorted_candidates = <<>> THEN kept
    ELSE LET candidate == Head(sorted_candidates)
         IN  KeepLoop(IF too_close(candidate, kept, min_distance)
                      THEN kept ELSE Append(kept, candidate),
                      Tail(sorted_candidates), min_distance)

\* _deduplicate_by_distance
deduplicate_by_distance(candidates, min_distance) ==
    IF candidates = <<>> THEN <<>>
    ELSE KeepLoop(<<>>, sorted_by_score(candidates), min_distance)

\* steps 4 and 5 with the rank counted from 0
TopNFromZero(candidates, limit) ==
    LET ranked == sorted_by_score(candidates)
    IN  [i \in 1..Min(limit, Len(ranked)) |->
            [address |-> ranked[i].address, lat |-> ranked[i].lat, lng |-> ranked[i].lng,
             score |-> ranked[i].score, rank |-> i - 1]]

\* generate_candidates, steps 4 and 5: sort, take the top N, add the rank
TopN(candidates, limit) ==
    LET ranked == sorted_by_score(candidates)
    IN  [i \in 1..Min(limit, Len(ranked)) |->
            [address |-> ranked[i].address, lat |-> ranked[i].lat, lng |-> ranked[i].lng,
             score |-> ranked[i].score, rank |-> i]]

\* generate_candidates, from the candidates of all areas on
generate_candidates ==
    /\ generator_pc = "scored"
    /\ deduped' = deduplicate_by_distance(all_candidates, min_distance_m)
    /\ top_n' = TopN(deduped', top_limit)
    /\ generator_pc' = "returned"
    /\ UNCHANGED <<all_candidates, top_limit>>
    /\ UNCHANGED notGenerator

\* Where candidates lie and what they score: points 60 m apart along a
\* street and 60 m across it
Positions == {0, 60, 120} \X {0, 60}
Scores == {9, 10}

\* The lists of scored candidates looked at
CandidateLists ==
    UNION {[1..n -> Positions \X Scores] : n \in 0..MaxCandidates}

Candidates(list) ==
    [i \in 1..Len(list) |->
        [address |-> i, lat |-> list[i][1][1], lng |-> list[i][1][2], score |-> list[i][2]]]

GeneratorInit ==
    /\ generator_pc = "scored"
    /\ \E list \in CandidateLists : all_candidates = Candidates(list)
    /\ top_limit \in {1, 2, default_limit}
    /\ deduped = <<>>
    /\ top_n = <<>>

GeneratorNext == generate_candidates

----------------------------------------------------------------------------
(***************************************************************************)
(* AddressGenerator._score_candidate.  The dict it returns is copied into  *)
(* the candidate, and generate_candidates changes none of its fields       *)
(* afterwards.                                                             *)
(*                                                                         *)
(* Units.  Sub-scores: thousandths of a point.  Coverage: hundredths.      *)
(* The weighted score: 1e-5 points.  The raw confidence: 1e-4.  Reported   *)
(* score: tenths of a point.  Reported confidence: hundredths.             *)
(***************************************************************************)
\* _get_hardcoded_population returns the population of the closest listed
\* area, or 8000
HardcodedPopulations ==
    {18000, 16500, 15200, 14800, 13500, 12000, 11500, 10800, 9500, 8200, 7500, 8800, 8000}

\* min((population / 25000) * 100, 100)
get_population_score(population) ==
    IF population > 0
    THEN [score |-> Min(population * 4, 100000), population |-> population, coverage |-> 100]
    ELSE [score |-> 50000, population |-> 8000, coverage |-> 80]

\* max(100 - (per_1k * 33.3), 0) with per_1k = 0.9
get_competition_score == [score |-> Max(100000 - 9 * 3330, 0), coverage |-> 90]

\* nearest_metro_m = 250, nearest_tram_m = 120
get_transit_score ==
    LET metro_score == Max(50000 - (250 * 1000) \div 10, 0)
        tram_score == Max(50000 - (120 * 1000) \div 6, 0)
    IN  [score |-> Min(metro_score + tram_score, 100000), coverage |-> 88]

\* What gather hands back for a helper that raised (return_exceptions=True)
Exception == [exception |-> "raised"]

\* a replacement of 0 points
FallbackZero == [score |-> 0, coverage |-> Missing]

\* What replaces the result of a helper that raised: a dict without coverage
Fallback == [score |-> 50000, coverage |-> Missing]

\* "Handle any exceptions"
handled(data) == IF data = Exception THEN Fallback ELSE data

\* data.get('coverage', 0.5)
Coverage(data) == IF data.coverage = Missing THEN 50 ELSE data.coverage

MAKE_OFFER == "MAKE_OFFER"
NEGOTIATE == "NEGOTIATE"
PASS == "PASS"

\* the decision with 60 as the score a NEGOTIATE needs
decide_from_sixty(score, confidence) ==
    IF score >= 8500000 /\ confidence >= 8000 THEN MAKE_OFFER
    ELSE IF score >= 6000000 /\ confidence >= 6500 THEN NEGOTIATE
    ELSE PASS

\* "Decision logic", on the score and the confidence as computed
decide(score, confidence) ==
    IF score >= 8500000 /\ confidence >= 8000 THEN MAKE_OFFER
    ELSE IF score >= 7000000 /\ confidence >= 6500 THEN NEGOTIATE
    ELSE PASS

\* _score_candidate after the gather: the weighted score (income 70 and
\* traffic 60 are fixed), the confidence, the decision, and the rounded
\* values of the returned dict.  include_crime changes the weights listed in
\* the dict and nothing of the score.
score_candidate(pop_result, comp_result, transit_result, include_crime) ==
    LET pop_data == handled(pop_result)
        comp_data == handled(comp_result)
        transit_data == handled(transit_result)
        score == pop_data.score * 28 + comp_data.score * 15 + transit_data.score * 20
                 + 70000 * 22 + 60000 * 10
        confidence == Min(5000 + Coverage(pop_data) * 20 + Coverage(comp_data) * 20
                          + Coverage(transit_data) * 10, 9500)
    IN  [score |-> RoundHalfEven(score, 10000),
         confidence |-> RoundHalfEven(confidence, 100),
         decision |-> decide(score, confidence),
         crime_penalty_cap |-> IF include_crime THEN 5 ELSE 0,
         provenance |-> [population |-> RoundHalfEven(pop_data.score, 100),
                         competition_inverse |-> RoundHalfEven(comp_data.score, 100),
                         transit_access |-> RoundHalfEven(transit_data.score, 100)]]

NoScoreData == [score |-> -1]

Helpers == {"population", "competition", "transit"}

\* Each helper returned its dict or raised (return_exceptions=True), for a
\* candidate whose closest listed area has the given population
Gathered(population, raised, include_crime) ==
    [population |-> population,
     pop_data |-> IF "population" \in raised THEN Exception ELSE get_population_score(population),
     comp_data |-> IF "competition" \in raised THEN Exception ELSE get_competition_score,
     transit_data |-> IF "transit" \in raised THEN Exception ELSE get_transit_score,
     include_crime |-> include_crime]

CandidateInit ==
    /\ candidate_pc = "gathered"
    /\ \E population \in HardcodedPopulations, raised \in SUBSET Helpers, include_crime \in BOOLEAN :
          gathered = Gathered(population, raised, include_crime)
    /\ score_data = NoScoreData

score_candidate_returns ==
    /\ candidate_pc = "gathered"
    /\ candidate_pc' = "returned"
    /\ score_data' = score_candidate(gathered.pop_data, gathered.comp_data,
                                     gathered.transit_data, gathered.include_crime)
    /\ UNCHANGED gathered
    /\ UNCHANGED notCandidate

CandidateNext == score_candidate_returns

----------------------------------------------------------------------------
(***************************************************************************)
(* TrustMetrics.calculate_coverage and TrustMetrics.calculate_confidence,  *)
(* called by main.py with the features of a location and the               *)
(* score_components of the score calculate_score gave it.                  *)
(*                                                                         *)
(* Units.  Coverage and the reported confidence: hundredths.  Component    *)
(* scores: points.  The parts of the confidence before rounding: 0.00005.  *)
(***************************************************************************)
demo_fields == {"population_1km", "population_density", "median_income"}
comp_fields == {"competitors_count", "competitors_per_1k_residents"}
transit_fields == {"nearest_metro_distance_m", "nearest_tram_distance_m", "walkability_poi_count"}

required_features ==
    {"population_1km", "median_income", "competitors_count", "nearest_metro_distance_m",
     "walkability_poi_count"}

\* d.get(key) is not None
Present(d, key) == key \in DOMAIN d /\ d[key] # Null

\* d.get(key, 50)
GetOrFifty(d, key) == IF key \in DOMAIN d THEN d[key] ELSE 50

\* calculate_coverage: the share of the fields of each group that are there,
\* and overall = demographics * 0.4 + competition * 0.3 + transit * 0.3
calculate_coverage(features) ==
    LET demo_present == Cardinality({f \in demo_fields : Present(features, f)})
        comp_present == Cardinality({f \in comp_fields : Present(features, f)})
        transit_present == Cardinality({f \in transit_fields : Present(features, f)})
    IN  [demographics |-> RoundHundredths(demo_present, 3),
         competition |-> RoundHundredths(comp_present, 2),
         transit |-> RoundHundredths(transit_present, 3),
         overall |-> RoundHalfEven(5 * (8 * demo_present + 9 * comp_present
                                        + 6 * transit_present), 3)]

\* round(min(coverage_score + consistency_score + completeness_score, 1.0), 2)
\* for a coverage in hundredths, four scores whose deviations from their
\* mean, times 4, have the squares summing to v16 (std_dev = sqrt(v16) / 8),
\* and a number of required features present.  consistency is
\* max(0, 1 - std_dev / 50).
TotalConfidence(overall, v16, features_present) ==
    LET coverage_score == 80 * overall
        completeness_score == 1200 * features_present
        root == ISqrt(v16)
        most == coverage_score + completeness_score + 6000
        AtLeast(n) == most - 200 * n + 100 >= 0
                      /\ 225 * v16 <= (most - 200 * n + 100) * (most - 200 * n + 100)
        rounded == IF root >= 400 THEN RoundHalfEven(coverage_score + completeness_score, 200)
                   ELSE IF root * root = v16 THEN RoundHalfEven(most - 15 * root, 200)
                   ELSE CHOOSE n \in 0..100 : AtLeast(n) /\ ~AtLeast(n + 1)
    IN  Min(rounded, 100)

\* TrustMetrics.calculate_confidence
TrustMetrics_calculate_confidence(score_components, coverage) ==
    LET scores == <<GetOrFifty(score_components, "population"),
                    GetOrFifty(score_components, "income"),
                    GetOrFifty(score_components, "access"),
                    GetOrFifty(score_components, "competition")>>
        total == SeqSum(scores)
        v16 == SeqSum([i \in 1..4 |-> (4 * scores[i] - total) * (4 * scores[i] - total)])
        features_present ==
            Cardinality({f \in required_features : Present(score_components, f)})
    IN  TotalConfidence(coverage.overall, v16, features_present)

\* the fields calculate_coverage and calculate_confidence look for
TrustFields == demo_fields \cup comp_fields \cup transit_fields \cup required_features

\* The features of a location: each field with a value or None
FeatureSets == [TrustFields -> {Null, 1}]

\* The component scores looked at (population, income, access, competition;
\* walkability is not read): identical, spread evenly, and at the two ends
ScoreComponentInputs ==
    {Weights(50, 50, 50, 50, 50), Weights(100, 100, 100, 100, 100), Weights(80, 60, 40, 20, 50),
     Weights(90, 50, 50, 10, 50), Weights(0, 0, 100, 100, 50)}

NoTrust == [confidence |-> -1]

TrustInit ==
    /\ trust_pc = "scored"
    /\ trust_call \in [features : FeatureSets, score_components : ScoreComponentInputs]
    /\ trust_result = NoTrust

\* main.py, "Calculate trust metrics"
calculate_trust_metrics ==
    /\ trust_pc = "scored"
    /\ trust_pc' = "returned"
    /\ LET coverage == calculate_coverage(trust_call.features)
       IN  trust_result' =
               [coverage |-> coverage,
                confidence |-> TrustMetrics_calculate_confidence(trust_call.score_components,
                                                                 coverage)]
    /\ UNCHANGED trust_call
    /\ UNCHANGED notTrust

TrustNext == calculate_trust_metrics

----------------------------------------------------------------------------
\* the database while only the job pipeline is looked at
ConceptIdle ==
    /\ concepts = <<>>
    /\ training = <<>>
    /\ outcome_rows = {}
    /\ writer = 0
    /\ spc = [s \in SessionIds |-> "idle"]
    /\ sess = [s \in SessionIds |-> IdleSession]
    /\ http_status = 0
    /\ requests = 0

\* the JobManager while only the database is looked at
JobIdle == JobInit

\* no calculate_score call, no generate_candidates call under way
ScoreIdle ==
    /\ scorer_pc = "idle"
    /\ scoring = [features |-> SiteFeatures(Missing, Missing, Missing, Missing, Missing,
                                             Missing, Missing),
                  concept_config |-> ConceptConfig(Weights(35, 25, 20, 10, 10))]
    /\ score_result = NoResult

GeneratorIdle ==
    /\ generator_pc = "idle"
    /\ all_candidates = <<>>
    /\ top_limit = default_limit
    /\ deduped = <<>>
    /\ top_n = <<>>

\* no retraining pass looked at on its own, no _score_candidate call under way
VarianceIdle == variance_calls = <<>>

CandidateIdle ==
    /\ candidate_pc = "idle"
    /\ gathered = Gathered(8000, {}, FALSE)
    /\ score_data = NoScoreData

TrustIdle ==
    /\ trust_pc = "idle"
    /\ trust_call = [features |-> [f \in TrustFields |-> Null],
                     score_components |-> Weights(50, 50, 50, 50, 50)]
    /\ trust_result = NoTrust

Idle == VarianceIdle /\ CandidateIdle /\ TrustIdle

Init == JobInit /\ ConceptIdle /\ ScoreIdle /\ GeneratorIdle /\ Idle

Next == JobNext

\* The program: requests, the background tasks, the consumers, the clock
Spec == Init /\ [][Next]_vars

\* The event loop runs every task that is ready (a scheduled
\* run_recommendation_job, a consumer whose queue.get() can return), and
\* every generate_candidates call returns or raises in the end
Fairness ==
    /\ \A j \in JobIds : WF_vars(RunStart(j))
    /\ \A j \in JobIds : []<>(task[j] \notin {"scheduled", "generating"})
    /\ \A c \in ConsumerIds : WF_vars(StreamStart(c)) /\ WF_vars(StreamGet(c))

FairSpec == Init /\ [][Next]_vars /\ Fairness

\* The JobManager driven by arbitrary callers
SpecApi == Init /\ [][ApiNext]_vars

\* The registry of two jobs
SpecRegistry == Init /\ [][RegistryNext]_vars

\* The concept routes and outcome submissions over the database
ConceptStart ==
    /\ ConceptInit({MIN_OUTCOMES_FOR_TRAINING - 1, MIN_OUTCOMES_FOR_WEIGHTS - 1})
    /\ JobIdle /\ ScoreIdle /\ GeneratorIdle /\ Idle

SpecConcept == ConceptStart /\ [][ConceptNext]_vars

\* Concurrent outcome submissions over the database
SessionsStart ==
    /\ ConceptInit({0, MIN_OUTCOMES_FOR_TRAINING - 1, MIN_OUTCOMES_FOR_WEIGHTS - 1})
    /\ JobIdle /\ ScoreIdle /\ GeneratorIdle /\ Idle

SpecSessions == SessionsStart /\ [][SessionsNext]_vars

\* The ConceptLearner driven by arbitrary callers
SpecLearner == SessionsStart /\ [][LearnerNext]_vars

\* Outcome learning below MIN_OUTCOMES_FOR_WEIGHTS outcomes
LearnStart ==
    /\ ConceptInit({0, MIN_OUTCOMES_FOR_TRAINING - 1, MIN_OUTCOMES_FOR_TRAINING})
    /\ JobIdle /\ ScoreIdle /\ GeneratorIdle /\ Idle

SpecLearn == LearnStart /\ [][LearnNext]_vars

\* The concept routes, with calculate_score reading the stored concepts
RevenueStart ==
    /\ ConceptInit({MIN_OUTCOMES_FOR_TRAINING})
    /\ JobIdle /\ ScoreIdle /\ GeneratorIdle /\ Idle

SpecRevenue == RevenueStart /\ [][RevenueNext]_vars

\* Outcome submissions around MIN_OUTCOMES_FOR_WEIGHTS outcomes, with and
\* without features in the earlier ones
WeightsStart ==
    /\ \/ ConceptInit({MIN_OUTCOMES_FOR_TRAINING - 1, MIN_OUTCOMES_FOR_WEIGHTS - 2,
                       MIN_OUTCOMES_FOR_WEIGHTS - 1})
       \/ PlainInit({MIN_OUTCOMES_FOR_WEIGHTS - 1})
    /\ JobIdle /\ ScoreIdle /\ GeneratorIdle /\ Idle

SpecWeights == WeightsStart /\ [][SessionsNext]_vars

\* Retraining passes repeated around MIN_OUTCOMES_FOR_TRAINING and
\* MIN_OUTCOMES_FOR_WEIGHTS outcomes
RetrainStart ==
    /\ ConceptInit({MIN_OUTCOMES_FOR_TRAINING - 1, MIN_OUTCOMES_FOR_TRAINING,
                    MIN_OUTCOMES_FOR_WEIGHTS - 1})
    /\ JobIdle /\ ScoreIdle /\ GeneratorIdle /\ Idle

SpecRetrain == RetrainStart /\ [][RetrainNext]_vars

\* Create and update requests with weights of every kind
SpecValidation == SessionsStart /\ [][ValidationNext]_vars

\* calculate_score applied to every feature set and concept looked at
ScoreStart == ScoreInit /\ JobIdle /\ ConceptIdle /\ GeneratorIdle /\ Idle

SpecScore == ScoreStart /\ [][ScoreNext]_vars

\* generate_candidates applied to every list of scored candidates looked at
GeneratorStart == GeneratorInit /\ JobIdle /\ ConceptIdle /\ ScoreIdle /\ Idle

SpecGenerator == GeneratorStart /\ [][GeneratorNext]_vars

\* Step 3 of _retrain_concept applied to every MAPE and count looked at
VarianceStart ==
    /\ VarianceIdle /\ CandidateIdle /\ TrustIdle
    /\ JobIdle /\ ConceptIdle /\ ScoreIdle /\ GeneratorIdle

SpecVariance == VarianceStart /\ [][VarianceNext]_vars

\* _score_candidate applied to everything the gather can return
CandidateStart ==
    /\ CandidateInit /\ VarianceIdle /\ TrustIdle
    /\ JobIdle /\ ConceptIdle /\ ScoreIdle /\ GeneratorIdle

SpecCandidate == CandidateStart /\ [][CandidateNext]_vars

\* The trust metrics of every location and score looked at
TrustStart ==
    /\ TrustInit /\ VarianceIdle /\ CandidateIdle
    /\ JobIdle /\ ConceptIdle /\ ScoreIdle /\ GeneratorIdle

SpecTrust == TrustStart /\ [][TrustNext]_vars

----------------------------------------------------------------------------
(***************************************************************************)
(* Properties                                                              *)
(***************************************************************************)
\* pending < running < terminal
Rank(status) == IF status = PENDING THEN 0 ELSE IF status = RUNNING THEN 1 ELSE 2

StatusStep(a, b) == a = b \/ (Rank(a) < Rank(b))

\* C1: a job's status only moves forward along pending -> running ->
\* {complete, degraded, failed}; a job that reached complete, degraded or
\* failed never changes status again, and none goes back to pending or
\* running, whatever the sequence of create_job, emit_stage_update,
\* complete_job, fail_job calls and pipeline steps.
C1_StatusOnlyMovesForward ==
    [][\A j \in JobIds :
         (j \in DOMAIN jobs /\ j \in DOMAIN jobs') =>
             StatusStep(jobs[j].status, jobs'[j].status)]_vars

\* C5: once complete_job or fail_job has been called for a job, every
\* stream_job_events consumer opened for that job eventually ends.
C5_ConsumersEnd ==
    \A c \in ConsumerIds :
        (cstate[c] \in {"connected", "streaming"} /\ cjob[c] \in called)
            ~> (cstate[c] \in {"ended", "noqueue"})

IsPrefix(s, t) == Len(s) <= Len(t) /\ s = SubSeq(t, 1, Len(s))

\* what a consumer was sent, without the keepalives
JobEvents(seq) == SelectSeq(seq, LAMBDA e : e # Keepalive)
\* what was enqueued for a job, without the sentinels
Enqueued(job_id) == SelectSeq(log[job_id], LAMBDA e : e # Sentinel)
TerminalCount(seq) == Len(SelectSeq(seq, IsTerminalEvent))

\* c is the only consumer that has taken anything from its job's queue
Sole(c) ==
    /\ cstate[c] \in {"streaming", "ended"}
    /\ \A d \in ConsumerIds \ {c} :
          ~(cjob[d] = cjob[c] /\ cstate[d] \in {"streaming", "ended"})

\* C6: a single consumer of a job receives the job's events in the order
\* they were enqueued (those enqueued before it connected included); the
\* COMPLETE or ERROR event is the last thing it receives, exactly one is
\* delivered, and the stream ends at the sentinel without yielding it.
C6_SingleConsumerOrder ==
    \A c \in ConsumerIds :
        Sole(c) =>
            /\ IsPrefix(JobEvents(received[c]), Enqueued(cjob[c]))
            /\ \A i \in 1..Len(received[c]) :
                  /\ received[c][i] # Sentinel
                  /\ IsTerminalEvent(received[c][i]) => i = Len(received[c])
            /\ cstate[c] = "ended" =>
                  /\ received[c] # <<>>
                  /\ IsTerminalEvent(received[c][Len(received[c])])
                  /\ TerminalCount(received[c]) = 1
                  /\ JobEvents(received[c]) = Enqueued(cjob[c])

\* C6 witness: a lone consumer has been sent the eight stage events of a
\* successful run and then COMPLETE, and has ended
C6_Witness ==
    \E c \in ConsumerIds :
        /\ Sole(c)
        /\ cstate[c] = "ended"
        /\ Len(JobEvents(received[c])) = Len(Stages) + 2
        /\ received[c][Len(received[c])].stage = "COMPLETE"

\* C7: a job that never receives a completion or failure event (its
\* pipeline is still in generate_candidates) is retrievable through get_job
\* with status running at every moment before its expires_at, and is not
\* retrievable once its expires_at has passed.
C7_RetrievableUntilExpiry ==
    \A j \in JobIds :
        (task[j] = "generating" /\ j \notin called) =>
            /\ now < born[j] => get_job(JM, j).status = RUNNING
            /\ now > born[j] => get_job(JM, j) = NoJob

\* C2: after any sequence of concept create, update, clone and retraining
\* operations, every stored concept has five weights and they sum to a
\* value within [0.95, 1.05].
C2_WeightsSumValid ==
    \A c \in DOMAIN concepts :
        /\ HasWeights(concepts[c].weights)
        /\ 95 <= WeightSum(concepts[c].weights)
        /\ WeightSum(concepts[c].weights) <= 105

\* C3: no step changes the row of a concept with is_system_default = true
\* (base revenue, variance band, weights, outcomes count, active flag all
\* stay as they are), and every concept a step adds is not a system default.
C3_SystemDefaultUntouched ==
    [][/\ \A c \in DOMAIN concepts :
             concepts[c].is_system_default => (c \in DOMAIN concepts' /\ concepts'[c] = concepts[c])
       /\ \A c \in (DOMAIN concepts') \ (DOMAIN concepts) : ~concepts'[c].is_system_default]_vars

\* the outcomes recorded for a concept since the model started
NewOutcomes(concept_id) ==
    SelectSeq(training, LAMBDA o : o.concept_id = concept_id /\ o.prediction_id \in PredictionIds)

\* two outcome submissions for the concept have run to their end, and no
\* submission is in progress
TwoSubmissionsDone(concept_id) ==
    /\ \A s \in SessionIds : spc[s] = "idle"
    /\ Len(NewOutcomes(concept_id)) = 2

\* base_revenue_eur, revenue_variance and avg_prediction_error (and the
\* weights, when a pass rewrites them) are those of one retraining pass: the
\* pass over all the outcomes recorded for the concept
FromOnePass(concept_id) ==
    LET pass == retrain_concept(concepts[concept_id], OutcomesOf(training, concept_id)) IN
    /\ concepts[concept_id].base_revenue_eur = pass.base_revenue_eur
    /\ concepts[concept_id].revenue_variance = pass.revenue_variance
    /\ concepts[concept_id].avg_prediction_error = pass.avg_prediction_error
    /\ concepts[concept_id].weights = pass.weights
    /\ concepts[concept_id].outcomes_count >= MIN_OUTCOMES_FOR_TRAINING
          => concepts[concept_id].avg_prediction_error # NoError

C4_ScoreAndConfidenceInRange ==
    scorer_pc = "returned" =>
        /\ 0 <= score_result.score /\ score_result.score <= 1000
        /\ 0 <= score_result.confidence /\ score_result.confidence <= 100

\* the distance between two candidates
Distance(a, b) == haversine_distance(a.lat, a.lng, b.lat, b.lng)

PairwiseApart(candidates) ==
    \A i, j \in 1..Len(candidates) :
        i # j => Distance(candidates[i], candidates[j]) >= min_distance_m

\* C8: every two distinct candidates returned by _deduplicate_by_distance,
\* and so by generate_candidates, are at least min_distance_m (80 m) apart
C8_ReturnedPairwiseApart ==
    generator_pc = "returned" => PairwiseApart(deduped) /\ PairwiseApart(top_n)

\* a candidate was dropped for lying within 80 m of a kept one, and two or
\* more candidates were returned
C8_Witness ==
    /\ generator_pc = "returned"
    /\ Len(deduped) < Len(all_candidates)
    /\ Len(deduped) >= 2
    /\ Len(top_n) >= 2

\* the addresses of the kept candidates
KeptAddresses == {deduped[i].address : i \in 1..Len(deduped)}

\* the total score of the candidates with the given addresses
TotalScore(addresses) ==
    SeqSum([i \in 1..Len(all_candidates) |->
               IF i \in addresses THEN all_candidates[i].score ELSE 0])

\* the largest total score of a subset of the given candidates whose
\* members are pairwise at least min_distance_m apart
MaxTotalScore(addresses) ==
    LET feasible == {S \in SUBSET addresses :
                        \A a, b \in S : a # b =>
                            Distance(all_candidates[a], all_candidates[b]) >= min_distance_m}
    IN  CHOOSE t \in {TotalScore(S) : S \in feasible} :
            \A S \in feasible : TotalScore(S) <= t

\* C9: removing any kept candidate from the input strictly decreases the
\* largest total score a subset of pairwise distant candidates can reach
C9_KeptSetOptimal ==
    generator_pc = "returned" =>
        \A k \in KeptAddresses :
            MaxTotalScore((1..Len(all_candidates)) \ {k})
                < MaxTotalScore(1..Len(all_candidates))

\* C9 as it holds: every candidate that was discarded lies closer than
\* min_distance_m to a kept candidate whose score is at least its own
C9_DiscardedHasBetterNeighbour ==
    generator_pc = "returned" =>
        \A d \in (1..Len(all_candidates)) \ KeptAddresses :
            \E i \in 1..Len(deduped) :
                /\ Distance(all_candidates[d], deduped[i]) < min_distance_m
                /\ deduped[i].score >= all_candidates[d].score

\* candidates were discarded, and the kept set scores less in total than
\* another set of pairwise distant candidates
C9_Witness ==
    /\ generator_pc = "returned"
    /\ KeptAddresses # 1..Len(all_candidates)
    /\ TotalScore(KeptAddresses) < MaxTotalScore(1..Len(all_candidates))

\* the actual revenues of the concept's outcomes, in table order
ActualRevenues(concept_id) ==
    LET rows == OutcomesOf(training, concept_id)
    IN  [i \in 1..Len(rows) |-> rows[i].actual_revenue_eur]

\* the two middle values of the sorted revenues (one value, twice, when
\* their number is odd)
LowerMiddle(data) == Kth(data, (Len(data) + 1) \div 2)
UpperMiddle(data) == Kth(data, Len(data) \div 2 + 1)

\* no request is under way and the concept's retraining passes have run
\* over all its n >= 5 outcomes
Retrained(concept_id) ==
    /\ \A s \in SessionIds : spc[s] = "idle"
    /\ concept_id \in DOMAIN concepts
    /\ Len(OutcomesOf(training, concept_id)) >= MIN_OUTCOMES_FOR_TRAINING

\* C11: after a retraining pass over the n >= 5 outcomes of a concept, its
\* base_revenue equals the median of their actual revenues (for even n the
\* mean of the two middle values)
C11_BaseRevenueIsMedian ==
    \A c \in ConceptIds :
        Retrained(c) =>
            2 * concepts[c].base_revenue_eur
                = LowerMiddle(ActualRevenues(c)) + UpperMiddle(ActualRevenues(c))

\* C11 as it holds: base_revenue is the median cut down to a whole number
\* of EUR, int(median)
C11_BaseRevenueIsTruncatedMedian ==
    \A c \in ConceptIds :
        Retrained(c) =>
            LET twice == LowerMiddle(ActualRevenues(c)) + UpperMiddle(ActualRevenues(c))
            IN  /\ 2 * concepts[c].base_revenue_eur <= twice
                /\ twice <= 2 * concepts[c].base_revenue_eur + 1

\* a pass ran over six outcomes whose two middle revenues are 1 EUR short of
\* an even sum
C11_Witness ==
    /\ Retrained(CustomConcept)
    /\ Len(ActualRevenues(CustomConcept)) = MIN_OUTCOMES_FOR_TRAINING + 1
    /\ (LowerMiddle(ActualRevenues(CustomConcept))
            + UpperMiddle(ActualRevenues(CustomConcept))) % 2 = 1
    /\ training[Len(training)].actual_revenue_eur \in LearnActuals

\* C12: calculate_score raises only when the concept cannot be resolved;
\* with any of the feature fields absent or None it returns a score result
C12_RaisesOnlyForUnknownConcept ==
    scorer_pc = "raised" => scoring.concept_config = NoConfig

\* C13: for every feature set and every concept state that create, update,
\* clone and retraining can reach, calculate_score returns
\* revenue_low <= revenue_mid <= revenue_high
C13_RevenueBandOrdered ==
    scorer_pc = "returned" =>
        /\ score_result.revenue_low <= score_result.revenue_mid
        /\ score_result.revenue_mid <= score_result.revenue_high

\* the training outcomes of a prediction
TrainingOutcomesOf(prediction_id) ==
    {i \in 1..Len(training) : training[i].prediction_id = prediction_id}

\* a submission for a prediction that has an Outcome already is answered
\* with 400 there and then: no record_outcome call starts and nothing stored
\* changes
DuplicateRejected ==
    \A s \in SessionIds, p \in PredictionIds, a \in Actuals :
        (p \in outcome_rows /\ submit_outcome(s, p, a)) =>
            /\ http_status' = 400
            /\ spc' = spc
            /\ concepts' = concepts
            /\ training' = training

\* C14: after any sequence of outcome submissions there is at most one
\* TrainingOutcome per prediction, and a duplicate submission is rejected
\* without changing the concept's outcomes_count or any other parameter
C14_OneTrainingOutcomePerPrediction ==
    [][/\ \A p \in PredictionIds :
             Cardinality({i \in 1..Len(training') : training'[i].prediction_id = p}) <= 1
       /\ DuplicateRejected]_vars

\* a prediction has its training outcome, and a second submission for it
\* has just been turned down
C14_Witness ==
    /\ http_status = 400
    /\ \E p \in PredictionIds : p \in outcome_rows /\ TrainingOutcomesOf(p) # {}
    /\ \A s \in SessionIds : spc[s] = "idle"

\* the step of a record_outcome call that looks the prediction up
LooksUp(s, known, linked) ==
    /\ spc[s] = "record"
    /\ record_flush(s)
    /\ (sess[s].prediction_id \in PredictionIds) = known
    /\ known => ((Prediction(sess[s].prediction_id).concept_id # NoConcept) = linked)

\* the call is over, nothing was learned, no concept and no training
\* outcome changed
NothingLearned(s) ==
    /\ spc'[s] = "idle"
    /\ concepts' = concepts
    /\ training' = training

\* C15: record_outcome fails with an error for a prediction id that does not
\* exist, and returns without an error, and without learning, for a
\* prediction that has no concept; no Concept field changes in either case
C15_NoLearningWithoutPredictionOrConcept ==
    [][\A s \in SessionIds :
          /\ LooksUp(s, FALSE, FALSE) => (http_status' = 500 /\ NothingLearned(s))
          /\ LooksUp(s, TRUE, FALSE) => (http_status' = 200 /\ NothingLearned(s))]_vars

\* a record_outcome call for a prediction that does not exist has failed:
\* no other call has stored an outcome that a second one could collide with
C15_Witness ==
    /\ http_status = 500
    /\ \A s \in SessionIds : spc[s] = "idle"
    /\ \A i \in 1..Len(training) : training[i].prediction_id \notin PredictionIds

\* the sum of the weights lies outside [0.95, 1.05]
SumOutside(weights) == WeightSum(weights) < 95 \/ WeightSum(weights) > 105

\* the request was turned down and every stored concept is as it was
TurnedDown == http_status' \in {400, 403, 404} /\ concepts' = concepts

CompletionEvents(events) == SelectSeq(events, LAMBDA e : e.stage = "COMPLETE")

C17_CaughtExceptionFailsJob ==
    \A j \in JobIds :
        (task[j] = "caught" /\ j \in DOMAIN jobs) =>
            /\ jobs[j].status = FAILED
            /\ jobs[j].error \in Errors
            /\ jobs[j].result = None
            /\ Len(log[j]) >= 2
            /\ log[j][Len(log[j]) - 1] = FailureEvent(jobs[j].error)
            /\ log[j][Len(log[j])] = Sentinel
            /\ CompletionEvents(log[j]) = <<>>
            /\ \A c \in ConsumerIds : cjob[c] = j => CompletionEvents(received[c]) = <<>>

\* the exception came after the seven stage events, and a consumer was sent
\* the ERROR event and reached the end of the stream
C17_Witness ==
    \E j \in JobIds, c \in ConsumerIds :
        /\ task[j] = "caught"
        /\ j \in DOMAIN jobs
        /\ "REVENUE" \in DOMAIN jobs[j].stages
        /\ cjob[c] = j
        /\ cstate[c] = "ended"
        /\ received[c] # <<>>
        /\ received[c][Len(received[c])].stage = "ERROR"

\* C18: a step in which emit_stage_update, complete_job or fail_job is called
\* with an id that is not in the registry (by a direct caller, or by a
\* pipeline whose job cleanup has removed) leaves the job records, their
\* stage maps, the set of queues and the content of every queue as they were.
StaleCall(j) ==
    \/ \E st \in {"GEO"}, status \in StageStatus : ApiEmitStageUpdate(j, st, status)
    \/ \E r \in Results, d \in BOOLEAN : ApiCompleteJob(j, r, d)
    \/ \E e \in Errors : ApiFailJob(j, e)
    \/ j \in JobIds /\ RunStart(j)
    \/ j \in JobIds /\ RunNoAreas(j)
    \/ j \in JobIds /\ RunFinish(j)

C18_UnknownJobIgnored ==
    [][\A j \in JobIds \cup {UnknownJob} :
          (j \notin DOMAIN jobs /\ StaleCall(j)) => UNCHANGED <<jobs, job_queues, queue, log>>]_vars

\* complete_job or fail_job was called with the id that was never handed out,
\* and a pipeline ran to its end after cleanup had removed its job: the only
\* item ever put on that job's queue is the first GEO event
C18_Witness ==
    /\ UnknownJob \in called
    /\ \E j \in JobIds :
          /\ task[j] \in {"finished", "caught"}
          /\ j \notin DOMAIN jobs
          /\ log[j] = <<StageEvent("GEO", "running")>>

\* C19: of two retraining passes over the same number of outcomes, the one
\* with the larger MAPE never gets the smaller revenue_variance, and no pass
\* gets a revenue_variance above 0.20.
MapeAtMost(a, b) == a.num * b.den <= b.num * a.den

C19_BandNonDecreasingInMape ==
    /\ \A i \in 1..Len(variance_calls) : variance_calls[i].new_variance <= 200
    /\ \A i, j \in 1..Len(variance_calls) :
          (/\ variance_calls[i].count = variance_calls[j].count
           /\ MapeAtMost(variance_calls[i].mape, variance_calls[j].mape))
          => variance_calls[i].new_variance <= variance_calls[j].new_variance

\* two passes over twenty outcomes, the first with a MAPE of 50 %, the second
\* with one just under 20 %: both get 0.15
C19_Witness ==
    /\ Len(variance_calls) = 2
    /\ variance_calls[1].count = 20
    /\ variance_calls[2].count = 20
    /\ variance_calls[1].mape = [num |-> 50000 * 20, den |-> 20]
    /\ variance_calls[2].mape = [num |-> 19999 * 20 + 1, den |-> 20]
    /\ variance_calls[1].new_variance = 150
    /\ variance_calls[2].new_variance = 150

\* C20: a returned candidate is labelled MAKE_OFFER exactly when its reported
\* score is at least 85 and its reported confidence at least 0.80, NEGOTIATE
\* exactly when it is not MAKE_OFFER and its reported score is at least 70
\* and its reported confidence at least 0.65, and PASS otherwise.
OfferGrade(d) == d.score >= 850 /\ d.confidence >= 80
NegotiateGrade(d) == ~OfferGrade(d) /\ d.score >= 700 /\ d.confidence >= 65

C20_DecisionMatchesReportedValues ==
    candidate_pc = "returned" =>
        /\ score_data.decision = MAKE_OFFER <=> OfferGrade(score_data)
        /\ score_data.decision = NEGOTIATE <=> NegotiateGrade(score_data)
        /\ score_data.decision = PASS <=> (~OfferGrade(score_data) /\ ~NegotiateGrade(score_data))

\* the candidate next to the densest listed area: 63.1 points at 0.95
\* confidence, labelled PASS
C20_Witness ==
    /\ candidate_pc = "returned"
    /\ gathered.pop_data = get_population_score(18000)
    /\ gathered.comp_data = get_competition_score
    /\ gathered.transit_data = get_transit_score
    /\ score_data.score = 631
    /\ score_data.confidence = 95
    /\ score_data.decision = PASS

\* C21: generate_candidates returns min(limit, number of survivors of the
\* deduplication) candidates; they are survivors, no survivor left out scores
\* more than a returned one, the scores do not increase along the list, and
\* the rank fields are 1, 2, ..., n in that order.
Returned(i) == \E k \in 1..Len(top_n) : top_n[k].address = deduped[i].address

C21_TopNRanked ==
    generator_pc = "returned" =>
        /\ Len(top_n) = Min(top_limit, Len(deduped))
        /\ \A k \in 1..Len(top_n) :
              /\ top_n[k].rank = k
              /\ \E i \in 1..Len(deduped) :
                    /\ deduped[i].address = top_n[k].address
                    /\ deduped[i].score = top_n[k].score
              /\ \A m \in 1..Len(top_n) : k < m =>
                    /\ top_n[k].score >= top_n[m].score
                    /\ top_n[k].address # top_n[m].address
        /\ \A i \in 1..Len(deduped) :
              ~Returned(i) => \A k \in 1..Len(top_n) : top_n[k].score >= deduped[i].score

\* three survivors and a limit of 2: the one scoring 10 is first, one of the
\* two scoring 9 is second, the other is left out
C21_Witness ==
    /\ generator_pc = "returned"
    /\ top_limit = 2
    /\ Len(deduped) = 3
    /\ Len(top_n) = 2
    /\ all_candidates[1].score = 9
    /\ top_n[1].score = 10
    /\ top_n[2].score = 9

\* C22: the run for a city without areas never ends in its except branch,
\* and once it has ended its job, when registered, has status complete, the
\* response with the empty list of addresses as result and no error; the
\* last two items put on its queue are the COMPLETE event carrying that
\* response and the end-of-stream marker, and no ERROR event was put.
NoAreas(j) == city[j] # None /\ ~Supported(city[j])

C22_NoAreasCompletesEmpty ==
    \A j \in JobIds :
        NoAreas(j) =>
            /\ task[j] # "caught"
            /\ (task[j] = "finished" /\ j \in DOMAIN jobs) =>
                  /\ jobs[j].status = COMPLETE
                  /\ jobs[j].result = EmptyTop
                  /\ jobs[j].error = None
                  /\ Len(log[j]) >= 2
                  /\ log[j][Len(log[j]) - 1] = CompletionEvent(EmptyTop)
                  /\ log[j][Len(log[j])] = Sentinel
                  /\ \A i \in 1..Len(log[j]) : log[j][i].stage # "ERROR"

\* the run for turku has ended, and a consumer was sent the COMPLETE event
\* with the empty list and reached the end of the stream
C22_Witness ==
    \E j \in JobIds, c \in ConsumerIds :
        /\ city[j] = "turku"
        /\ task[j] = "finished"
        /\ j \in DOMAIN jobs
        /\ cjob[c] = j
        /\ cstate[c] = "ended"
        /\ received[c] # <<>>
        /\ received[c][Len(received[c])] = CompletionEvent(EmptyTop)

\* C23: a record_outcome call that commits has raised the concept's
\* outcomes_count by exactly 1; its retraining pass ran (the new outcome is
\* marked used) exactly when the new count is at least 5; after a pass the
\* concept's base_revenue, revenue_variance and avg_prediction_error are the
\* ones computed from all the concept's outcomes, the new one included, and
\* last_trained_at is set; while the count is below 5 avg_prediction_error
\* and last_trained_at are unset.
Commits(s) == spc[s] = "commit" /\ spc'[s] = "idle"

CommittedAsCounted(s) ==
    LET concept_id == sess[s].training_outcome.concept_id
        before == concepts[concept_id]
        after == concepts'[concept_id]
        rows == OutcomesOf(training', concept_id)
        recorded == training'[Len(training')]
        actuals == [i \in 1..Len(rows) |-> rows[i].actual_revenue_eur]
    IN  /\ after.outcomes_count = before.outcomes_count + 1
        /\ recorded.prediction_id = sess[s].prediction_id
        /\ recorded.used_in_training <=> (after.outcomes_count >= MIN_OUTCOMES_FOR_TRAINING)
        /\ after.outcomes_count >= MIN_OUTCOMES_FOR_TRAINING =>
              /\ after.base_revenue_eur = IntOfHalf(TwiceMedian(actuals))
              /\ after.revenue_variance = NewVariance(Mape(rows), Len(rows))
              /\ after.avg_prediction_error = Mape(rows)
              /\ after.last_trained_at # None
        /\ after.outcomes_count < MIN_OUTCOMES_FOR_TRAINING =>
              /\ after.avg_prediction_error = NoError
              /\ after.last_trained_at = None

C23_CountedThenRetrained ==
    [][\A s \in SessionIds : Commits(s) => CommittedAsCounted(s)]_vars

\* the fifth outcome of the customer's concept has been recorded and the
\* pass it triggered has set avg_prediction_error and last_trained_at
C23_Witness ==
    /\ http_status = 200
    /\ concepts[CustomConcept].outcomes_count = MIN_OUTCOMES_FOR_TRAINING
    /\ Len(OutcomesOf(training, CustomConcept)) = MIN_OUTCOMES_FOR_TRAINING
    /\ training[Len(training)].used_in_training
    /\ concepts[CustomConcept].avg_prediction_error # NoError
    /\ concepts[CustomConcept].last_trained_at = utcnow
    /\ concepts[SystemConcept].last_trained_at = None

\* C24: the retraining pass of a committed record_outcome call changes the
\* concept's weights only when the concept has at least 20 outcomes and the
\* absolute correlations do not sum to 0, and then the new weights sum to
\* 1.0; with 5 to 19 outcomes, or with every correlation 0, the weights stay
\* as they were while base_revenue, revenue_variance and
\* avg_prediction_error are the ones computed from the outcomes.
TotalCorrelation(outcomes) ==
    LET rows == SelectSeq(outcomes, LAMBDA o : o.features_used # NoFeatures)
        y == [i \in 1..Len(rows) |-> RevenueInUnits(rows[i])]
    IN  SeqSum([k \in DOMAIN FeatureNames |->
                   Abs(calculate_correlation(FeatureColumn(rows, FeatureNames[k]), y))])

PassKeepsOrNormalises(s) ==
    LET concept_id == sess[s].training_outcome.concept_id
        before == concepts[concept_id]
        after == concepts'[concept_id]
        rows == OutcomesOf(training', concept_id)
        actuals == [i \in 1..Len(rows) |-> rows[i].actual_revenue_eur]
    IN  Len(rows) >= MIN_OUTCOMES_FOR_TRAINING =>
          /\ after.weights # before.weights =>
                /\ Len(rows) >= MIN_OUTCOMES_FOR_WEIGHTS
                /\ TotalCorrelation(rows) # 0
                /\ WeightSum(after.weights) = 100
          /\ (Len(rows) < MIN_OUTCOMES_FOR_WEIGHTS \/ TotalCorrelation(rows) = 0) =>
                /\ after.weights = before.weights
                /\ after.base_revenue_eur = IntOfHalf(TwiceMedian(actuals))
                /\ after.revenue_variance = NewVariance(Mape(rows), Len(rows))
                /\ after.avg_prediction_error = Mape(rows)

C24_WeightsChangeOnlyFromTwenty ==
    [][\A s \in SessionIds : Commits(s) => PassKeepsOrNormalises(s)]_vars

\* the twentieth outcome replaced weights that summed to 0.97 by weights
\* that sum to 1.0
C24_Witness ==
    /\ http_status = 200
    /\ Len(OutcomesOf(training, CustomConcept)) = MIN_OUTCOMES_FOR_WEIGHTS
    /\ training[Len(training)].used_in_training
    /\ TotalCorrelation(OutcomesOf(training, CustomConcept)) # 0
    /\ concepts[CustomConcept].weights # Weights(30, 30, 20, 10, 7)
    /\ WeightSum(concepts[CustomConcept].weights) = 100

\* the twentieth outcome of a concept whose outcomes carry no features:
\* the pass ran and kept the weights
C24_WitnessUncorrelated ==
    /\ http_status = 200
    /\ Len(OutcomesOf(training, CustomConcept)) = MIN_OUTCOMES_FOR_WEIGHTS
    /\ training[Len(training)].used_in_training
    /\ TotalCorrelation(OutcomesOf(training, CustomConcept)) = 0
    /\ concepts[CustomConcept].weights = Weights(30, 30, 20, 10, 7)

\* C25: in the order the stage updates of a job were recorded and put on
\* its queue, a stage is done, warn or fail only after it was running, and
\* nothing is recorded for a stage after it was done, warn or fail.
StageEnded(e) == e.stage \in {Stages[k] : k \in DOMAIN Stages} /\ e.status \in {"done", "warn", "fail"}

C25_StagesMoveForward ==
    \A j \in JobIds : \A i \in 1..Len(log[j]) :
        StageEnded(log[j][i]) =>
            /\ \E k \in 1..(i - 1) : log[j][k] = StageEvent(log[j][i].stage, "running")
            /\ \A k \in (i + 1)..Len(log[j]) : log[j][k].stage # log[j][i].stage

\* C26: after every step a job id has a job record exactly when it has an
\* event queue; a job record disappears only when its expires_at is earlier
\* than the current time; and a run of cleanup_expired_jobs removes the
\* record and the queue of exactly the jobs whose expires_at is earlier than
\* the current time, consumed or not, and leaves the record and the queue
\* content of every other job as they were.
Expired(j) == jobs[j].expires_at < now

C26_CleanupRemovesExpiredOnly ==
    [][/\ DOMAIN jobs' = job_queues'
       /\ \A j \in DOMAIN jobs : j \notin DOMAIN jobs' => Expired(j)
       /\ Cleanup =>
             /\ DOMAIN jobs' = {j \in DOMAIN jobs : ~Expired(j)}
             /\ job_queues' = {j \in job_queues : ~Expired(j)}
             /\ \A j \in DOMAIN jobs' : jobs'[j] = jobs[j]
             /\ queue' = queue]_vars

\* cleanup removed the first job, whose consumer is still streaming with an
\* event left on the queue, and kept the second
C26_Witness ==
    /\ born[1] # -1
    /\ 1 \notin DOMAIN jobs
    /\ 1 \notin job_queues
    /\ 2 \in DOMAIN jobs
    /\ 2 \in job_queues
    /\ cjob[1] = 1
    /\ cstate[1] = "streaming"
    /\ queue[1] # <<>>

\* C27: whichever of the population, competition and transit lookups raise,
\* _score_candidate returns a scored candidate; the sub-score of a lookup that
\* raised is 50.0 and the sub-score of a lookup that returned is the score it
\* measured; and the reported confidence is not above the confidence the same
\* candidate gets when no lookup raises.
Measured(data) == IF data = Exception THEN 500 ELSE RoundHalfEven(data.score, 100)

C27_FailedLookupsScoreFifty ==
    candidate_pc = "returned" =>
        /\ score_data # NoScoreData
        /\ score_data.score >= 0
        /\ score_data.provenance.population = Measured(gathered.pop_data)
        /\ score_data.provenance.competition_inverse = Measured(gathered.comp_data)
        /\ score_data.provenance.transit_access = Measured(gathered.transit_data)
        /\ score_data.confidence
              <= score_candidate(get_population_score(gathered.population), get_competition_score,
                                 get_transit_score, gathered.include_crime).confidence

\* the population and the transit lookup raised, the competition lookup
\* returned 70.03: 50.0, 70.0 and 50.0 points, confidence 0.83 instead of 0.95
C27_Witness ==
    /\ candidate_pc = "returned"
    /\ gathered.pop_data = Exception
    /\ gathered.comp_data = get_competition_score
    /\ gathered.transit_data = Exception
    /\ score_data.provenance.population = 500
    /\ score_data.provenance.competition_inverse = 700
    /\ score_data.provenance.transit_access = 500
    /\ score_data.confidence = 83

\* C28: a retraining pass computes base_revenue, revenue_variance,
\* avg_prediction_error and the weights from all the outcomes of the concept,
\* whatever their used_in_training flags; a pass that follows another with
\* no new outcome in between (the one record_outcome ran, or a repeated one)
\* leaves these four as it found them, and so would one more; and after a
\* pass every outcome of the concept is marked used.
History(rows, concept_id) == SelectSeq(rows, LAMBDA o : o.concept_id = concept_id)

Unmarked(rows) == [i \in 1..Len(rows) |-> [rows[i] EXCEPT !.used_in_training = FALSE]]

SameTraining(a, b) ==
    /\ a.base_revenue_eur = b.base_revenue_eur
    /\ a.revenue_variance = b.revenue_variance
    /\ a.avg_prediction_error = b.avg_prediction_error
    /\ a.weights = b.weights

PassOverFullHistory(c) ==
    /\ SameTraining(concepts'[c], retrain_concept(concepts[c], Unmarked(History(training, c))))
    /\ SameTraining(concepts'[c], retrain_concept(concepts[c], MarkUsed(History(training, c))))
    /\ SameTraining(retrain_concept(concepts'[c], History(training', c)), concepts'[c])
    /\ SameTraining(concepts'[c], concepts[c])
    /\ \A i \in 1..Len(training') : training'[i].concept_id = c => training'[i].used_in_training

C28_RetrainingIsIdempotent ==
    [][\A c \in ConceptIds : retrain_pass(c) => PassOverFullHistory(c)]_vars

\* two passes in a row over the same twenty outcomes, the twentieth recorded
\* just before: the concept carries the weights the first pass gave it
C28_Witness ==
    /\ Len(variance_calls) = 2
    /\ variance_calls[1] = variance_calls[2]
    /\ variance_calls[1].count = MIN_OUTCOMES_FOR_WEIGHTS
    /\ Len(History(training, 2)) = MIN_OUTCOMES_FOR_WEIGHTS
    /\ \A i \in 1..Len(training) : training[i].used_in_training
    /\ concepts[2].weights # Weights(30, 30, 20, 10, 7)
    /\ concepts[2].avg_prediction_error = variance_calls[2].mape

\* C30: whatever record_outcome calls have committed, in whatever
\* interleaving of their sessions, the outcomes_count of every concept is the
\* number of training outcomes stored for that concept.
CountedOutcomes(c) == Len(SelectSeq(training, LAMBDA o : o.concept_id = c))

RequiredPresent(features) == Cardinality({f \in required_features : Present(features, f)})

Deviations(score_components) ==
    LET total == score_components.population + score_components.income
                 + score_components.access + score_components.competition
        Square(x) == (4 * x - total) * (4 * x - total)
    IN  Square(score_components.population) + Square(score_components.income)
        + Square(score_components.access) + Square(score_components.competition)

C29_ConfidenceCountsRequiredFields ==
    trust_pc = "returned" =>
        /\ trust_result.confidence
              = TotalConfidence(trust_result.coverage.overall, Deviations(trust_call.score_components),
                                RequiredPresent(trust_call.features))
        /\ (/\ \A f \in TrustFields : Present(trust_call.features, f)
            /\ Deviations(trust_call.score_components) = 0)
              => trust_result.confidence = 100

\* every field there and four component scores of 50: confidence 0.70
C29_FullLocationBelowOne ==
    /\ trust_pc = "returned"
    /\ \A f \in TrustFields : Present(trust_call.features, f)
    /\ trust_call.score_components = Weights(50, 50, 50, 50, 50)
    /\ trust_result.coverage.overall = 100
    /\ trust_result.confidence = 70

====
